---------------------------- MODULE Spec2Model ----------------------------
(***************************************************************************)
(* Verification model of Project503: profile building (personas, target    *)
(* profiles, spatial clustering) and virtual-task recommendation           *)
(* (content scoring, user-based collaborative filtering, hybrid lists).    *)
(*                                                                         *)
(* Scores are fixed-point integers in units of 1e-4 (the code rounds every *)
(* reported score to 4 decimals), so 1.0 is 10000 and 0.3 is 3000.         *)
(***************************************************************************)
EXTENDS Integers, Sequences, FiniteSets, TLC

VARIABLES
    \* ---- _recommend_for_single_user_hybrid (recommendation_algorithm.py)
    hpc,                      \* position inside the call
    virtual_tasks,            \* the candidate tasks, in input order
    top_n,                    \* requested list length
    hybrid_recommendations,   \* all tasks, hybrid score, sorted
    cf_discovery,             \* discovery candidates, CF score, sorted
    final_recommendations,    \* the list being built
    existing_task_ids,        \* ids of the hybrid slots
    discovery_count,          \* discovery tasks appended
    returned,                 \* the returned list
    \* ---- _match_target / _match_region_from_profile / _match_target_category
    mpc,                      \* position inside the call
    dimension,                \* which of the three matchers is called
    preferred,                \* the persona's ranked preference list (labels)
    target_labels,            \* the labels the target carries in that dimension
    match_score,              \* the returned sub-score
    \* ---- _user_based_cf
    cfpc,                     \* position inside the call
    cf_users,                 \* number of personas (user ids are 1..cf_users)
    user_task_interactions,   \* user id -> set of task ids
    user_similarities,        \* (user, user) -> similarity, positive entries only
    top_k_neighbors,          \* K
    cf_scores,                \* (user, task) -> normalised CF score, as num/den
    \* ---- DBSCANClustering.fit_predict, the remapping of the raw labels
    rpc,                      \* position inside the call
    item_ids,                 \* identifiers, one per coordinate
    raw_labels,               \* labels returned by _cluster_with_auto_tune
    result,                   \* item id -> remapped cluster id
    \* ---- test.py main, generate_target_profile
    tpc,                      \* position inside the run
    mission,                  \* the missions handed in, then the filtered ones
    start_time,               \* lower end of the time window, 0 for None
    spatial_cluster_map,      \* the map test.py computes and passes to the builders
    cluster_counts,           \* persona side: cluster id -> number of missions
    missions_by_target,       \* groups in first-seen order of target id
    global_cluster_labels,    \* result of _compute_global_clustering
    tag_calculator,           \* the TargetTagCalculator
    profiles,                 \* target profiles built so far
    clustering_runs,          \* clustering runs started by generate_target_profile
    \* ---- generate_user_persona
    ppc,                      \* position inside the call
    persona_mission,          \* the missions handed in, then the filtered ones
    persona_start_time,       \* lower end of the time window, 0 for None
    persona_algorithm,        \* the algorithm dict, global_stats included
    persona_tag_calculator,   \* the PersonaTagCalculator
    user_groups,              \* _group_missions_by_user, in first-seen key order
    user_personas,            \* personas built so far
    \* ---- builders' tags scored by _calculate_task_score (category part)
    spc,                      \* position inside the run
    user_missions,            \* target ids of one user's missions
    task_target_id,           \* targetId of the virtual task
    target_mission_count,     \* number of missions on that target
    persona_tags,             \* tags of the user persona
    profile_tags,             \* tags of the target profile
    category_match_score,     \* the category sub-score
    \* ---- ranked tag lists (persona_tag_calculator.py, target_tag_calculator.py)
    tgpc,                     \* position inside the run
    tag_dimension,            \* the tag dimension computed
    tag_values,               \* per mission, the field the dimension reads
    tag_top_n,                \* top_n of the calculator
    tag_cluster_map,          \* algorithm_config["spatial_cluster_map"]
    tag_algorithm,            \* preference_algorithm of the calculator
    tag_global_stats,         \* global_stats of the calculator
    tag_total,                \* the total the percentages refer to
    tag_list,                 \* the ranked list returned
    \* ---- _calculate_concentration_index (persona_tag_calculator.py)
    xpc,                      \* position inside the run
    hhi_counts,               \* counts, the missions per target
    concentration,            \* the dictionary returned
    dpc,                  \* position in _generate_recommendations_for_target
    demand_profile_tags,  \* profile_tags of the target
    demand_top_n,         \* top_n
    independent_fields,   \* field name -> candidate values with weights, in dict order
    combinations,         \* the result of _calculate_field_combinations
    demands,              \* the recommendation demands of the target
    ipc,                  \* position in _merge_resolution_intervals
    intervals,            \* the interval strings handed to the merge
    merged_interval,      \* its result
    npc,                  \* position in _calculate_recommendation_count
    request_frequency,    \* persona_tags['request_frequency']
    base_count,           \* base_top_n
    user_top_n,           \* the number of recommendations of the user
    wpc,                  \* position in the construction of the recommender
    supplied_weights,     \* the five content weights handed to __init__
    supplied_hybrid,      \* content_weight and cf_weight handed to __init__
    content_weights,      \* self.weight_target_match .. self.weight_scout_scenario
    hybrid_weights,       \* self.content_weight, self.cf_weight
    init_error,           \* the exception __init__ raised
    kpc,                  \* position in the call of a builder
    entry_builder,        \* the builder called
    entry_config,         \* algorithm
    entry_targets,        \* the ids of target_info
    entry_missions,       \* mission
    entry_base_top_n,     \* base_top_n
    entry_outcome,        \* what the call raised or returned, and what it computed
    \* ---- _recommend_for_single_user, save_task_recommendations
    lpc,                      \* position inside the run
    lookup_persona,           \* persona_tags of the user
    lookup_tasks,             \* the candidate virtual tasks
    target_profile_map,       \* target id -> target profile
    lookup_top_n,             \* top_n
    lookup_use_cf,            \* use_cf of recommend_tasks_for_users
    lookup_cf_scores,         \* task id -> CF score of this user (1e-4), where it has one
    task_map,                 \* task ids of the catalog file
    scored_tasks,             \* the entries scored by the loop
    lookup_recommendations,   \* the returned list
    full_tasks,               \* recommended_tasks of the saved output
    lookup_warnings,          \* warnings printed while saving
    \* ---- recommend_tasks_for_users, the per-user phase
    qpc,                      \* position of the call
    par_personas,             \* persona_tags of the users
    par_cf_scores,            \* user -> task id -> CF score
    par_enable_cf,            \* self.enable_cf
    par_base_top_n,           \* base_top_n
    user_pc,                  \* user -> position of that user's work
    user_recommendations,     \* user -> the list computed for it
    all_recommendations,      \* user key -> stored list
    first_user_logged,        \* whether self has the attribute _first_user_logged
    \* ---- _cluster_with_auto_tune
    upc,                      \* position inside the call
    tune_coords,              \* coords_rad, as kilometres along a great circle
    tune_eps_km,              \* base_eps, in kilometres
    tune_min_samples,         \* base_min_samples
    tune_desired,             \* desired_min_clusters
    tune_eps_scales,          \* eps_scales, in tenths
    tune_attempt_idx,         \* attempt_idx of the next pass
    tune_attempts,            \* attempts
    tune_best_score,          \* best_score: no or one number
    tune_best_labels,         \* best_labels: None or one labelling
    tune_returned,            \* the returned labels
    \* ---- _calculate_target_proportion, auto mode
    apc,                      \* position inside the call
    auto_counts,              \* list(target_counts.values())
    auto_total_users,         \* global_stats['total_users']
    auto_algorithm            \* the algorithm settled on

hybridVars == <<hpc, virtual_tasks, top_n, hybrid_recommendations, cf_discovery,
                final_recommendations, existing_task_ids, discovery_count, returned>>
matchVars == <<mpc, dimension, preferred, target_labels, match_score>>
cfVars == <<cfpc, cf_users, user_task_interactions, user_similarities,
            top_k_neighbors, cf_scores>>
remapVars == <<rpc, item_ids, raw_labels, result>>
profileVars == <<tpc, mission, start_time, spatial_cluster_map, cluster_counts,
                 missions_by_target, global_cluster_labels, tag_calculator,
                 profiles, clustering_runs>>
personaVars == <<ppc, persona_mission, persona_start_time, persona_algorithm,
                 persona_tag_calculator, user_groups, user_personas>>
scoreVars == <<spc, user_missions, task_target_id, target_mission_count,
               persona_tags, profile_tags, category_match_score>>
tagVars == <<tgpc, tag_dimension, tag_values, tag_top_n, tag_cluster_map,
             tag_algorithm, tag_global_stats, tag_total, tag_list>>
hhiVars == <<xpc, hhi_counts, concentration>>
demandVars == <<dpc, demand_profile_tags, demand_top_n, independent_fields, combinations, demands>>
resVars == <<ipc, intervals, merged_interval>>
countVars == <<npc, request_frequency, base_count, user_top_n>>
initVars == <<wpc, supplied_weights, supplied_hybrid, content_weights, hybrid_weights, init_error>>
entryVars == <<kpc, entry_builder, entry_config, entry_targets, entry_missions, entry_base_top_n, entry_outcome>>
lookupVars == <<lpc, lookup_persona, lookup_tasks, target_profile_map, lookup_top_n,
                lookup_use_cf, lookup_cf_scores,
                task_map, scored_tasks, lookup_recommendations, full_tasks,
                lookup_warnings>>
parVars == <<qpc, par_personas, par_cf_scores, par_enable_cf, par_base_top_n, user_pc,
             user_recommendations, all_recommendations, first_user_logged>>
tuneVars == <<upc, tune_coords, tune_eps_km, tune_min_samples, tune_desired, tune_eps_scales,
              tune_attempt_idx, tune_attempts, tune_best_score, tune_best_labels,
              tune_returned>>
autoVars == <<apc, auto_counts, auto_total_users, auto_algorithm>>

vars == <<hybridVars, matchVars, cfVars, remapVars, profileVars, personaVars,
          scoreVars,
          tagVars,
          hhiVars,
          demandVars,
          resVars,
          countVars,
          initVars,
          entryVars,
          lookupVars,
          parVars,
          tuneVars,
          autoVars>>

(***************************************************************************)
(* Bounds of the model.                                                    *)
(***************************************************************************)
MaxTasks == 6
MaxTopN == 6

(***************************************************************************)
(* Generic helpers.                                                        *)
(***************************************************************************)
Min2(a, b) == IF a <= b THEN a ELSE b
Max2(a, b) == IF a >= b THEN a ELSE b

\* seq[:n] of Python for n >= 0
Take(seq, n) == SubSeq(seq, 1, Min2(n, Len(seq)))
\* seq[n:] of Python for n >= 0
Drop(seq, n) == SubSeq(seq, n + 1, Len(seq))

SeqRange(seq) == {seq[i] : i \in DOMAIN seq}

\* round(num/den) to the nearest integer, ties to even (Python's round)
RoundHalfEven(num, den) ==
    LET q == num \div den
        r == num % den
    IN  IF 2 * r < den THEN q
        ELSE IF 2 * r > den THEN q + 1
        ELSE IF q % 2 = 0 THEN q ELSE q + 1


(***************************************************************************)
(* Hybrid recommendation for one user.                                     *)
(* recommendation_algorithm.py, _recommend_for_single_user_hybrid          *)
(***************************************************************************)

\* Hybrid weights after the constructor's normalisation, in tenths:
\* content_weight = 0.7/(0.7+0.3), cf_weight = 0.3/(0.7+0.3).
ContentWeightTenths == 7
CfWeightTenths == 3

\* Discovery thresholds: cf_score > 0.5 and content_score < 0.3.
DiscoveryMinCf == 5000
DiscoveryMaxContent == 3000

\* (content_score, cf_score) pairs a candidate task can carry: the content
\* score is _calculate_task_score's total (in [0.1, 1.0]); the CF score is
\* 0.0 when _user_based_cf has no entry for (user, task), else in (0, 1].
TaskScorePairs ==
    { <<6000, 0>>, <<2000, 0>>, <<2000, 10000>>, <<2000, 6000>> }

\* Candidate lists: task ids are pairwise distinct (the position in the list).
TaskLists(n) ==
    { [i \in 1..n |-> [task_id |-> i, content_score |-> p[i][1], cf_score |-> p[i][2]]] :
        p \in [1..n -> TaskScorePairs] }

\* Stable sort, descending on .score: list.sort(key=score, reverse=True).
\* Equal scores keep their input order.
InsertByScoreDesc(sorted, x) ==
    LET ahead == Cardinality({i \in DOMAIN sorted : sorted[i].score >= x.score})
    IN  Take(sorted, ahead) \o <<x>> \o Drop(sorted, ahead)

RECURSIVE SortByScoreDesc(_)
SortByScoreDesc(seq) ==
    IF seq = <<>> THEN <<>>
    ELSE InsertByScoreDesc(SortByScoreDesc(SubSeq(seq, 1, Len(seq) - 1)), seq[Len(seq)])

\* hybrid_score = content_weight * content_score + cf_weight * cf_score, round(.., 4)
HybridScoreOf(content, cf) ==
    RoundHalfEven(ContentWeightTenths * content + CfWeightTenths * cf, 10)

HybridEntry(vt) ==
    [task_id |-> vt.task_id, score |-> HybridScoreOf(vt.content_score, vt.cf_score),
     content_score |-> vt.content_score, cf_score |-> vt.cf_score,
     is_discovery |-> FALSE]

IsDiscovery(vt) ==
    vt.cf_score > DiscoveryMinCf /\ vt.content_score < DiscoveryMaxContent

DiscoveryEntry(vt) ==
    [task_id |-> vt.task_id, score |-> vt.cf_score,
     content_score |-> vt.content_score, cf_score |-> vt.cf_score,
     is_discovery |-> TRUE]

\* Mutant of NumHybrid: round() instead of int().
NumHybridRounded(n) == RoundHalfEven(8 * n, 10)

\* num_hybrid = int(top_n * 0.8)
NumHybrid(n) == (8 * n) \div 10

\* for discovery_task in cf_discovery: append unless its id is in
\* existing_task_ids; stop once discovery_count >= num_discovery.
RECURSIVE DiscoveryLoop(_, _, _, _, _)
DiscoveryLoop(cands, existing, num_discovery, final, count) ==
    IF cands = <<>> THEN [final |-> final, count |-> count]
    ELSE IF Head(cands).task_id \notin existing
         THEN IF count + 1 >= num_discovery
              THEN [final |-> Append(final, Head(cands)), count |-> count + 1]
              ELSE DiscoveryLoop(Tail(cands), existing, num_discovery,
                                 Append(final, Head(cands)), count + 1)
         ELSE DiscoveryLoop(Tail(cands), existing, num_discovery, final, count)

\* for task in hybrid_recommendations[num_hybrid:]: append unless its id is
\* in existing_task_ids; stop once len(final_recommendations) >= top_n.
RECURSIVE BackfillLoop(_, _, _, _)
BackfillLoop(rest, existing, n, final) ==
    IF rest = <<>> THEN final
    ELSE IF Head(rest).task_id \notin existing
         THEN IF Len(final) + 1 >= n
              THEN Append(final, Head(rest))
              ELSE BackfillLoop(Tail(rest), existing, n, Append(final, Head(rest)))
         ELSE BackfillLoop(Tail(rest), existing, n, final)

HybridFrame ==
    UNCHANGED <<matchVars, cfVars, remapVars, profileVars, personaVars, scoreVars,
          tagVars,
          hhiVars,
          demandVars,
          resVars,
          countVars,
          initVars,
          entryVars,
          lookupVars,
          parVars,
          tuneVars,
          autoVars>>

HybridIdle ==
    /\ hpc = "idle"
    /\ virtual_tasks = <<>>
    /\ top_n = 0
    /\ hybrid_recommendations = <<>>
    /\ cf_discovery = <<>>
    /\ final_recommendations = <<>>
    /\ existing_task_ids = {}
    /\ discovery_count = 0
    /\ returned = <<>>

\* The call: recommend_tasks_for_users hands over a non-empty candidate list
\* and a positive top_n.
HybridCall ==
    /\ hpc = "idle"
    /\ \E n \in 1..MaxTasks : \E tasks \in TaskLists(n) : virtual_tasks' = tasks
    /\ \E k \in 1..MaxTopN : top_n' = k
    /\ hpc' = "scoring"
    /\ UNCHANGED <<hybrid_recommendations, cf_discovery, final_recommendations,
                   existing_task_ids, discovery_count, returned>>
    /\ HybridFrame

\* Lines 455-492: score every task, collect discovery candidates, sort both.
HybridScoreTasks ==
    /\ hpc = "scoring"
    /\ hybrid_recommendations' =
         SortByScoreDesc([i \in DOMAIN virtual_tasks |-> HybridEntry(virtual_tasks[i])])
    /\ cf_discovery' =
         SortByScoreDesc([i \in DOMAIN SelectSeq(virtual_tasks, IsDiscovery) |->
                            DiscoveryEntry(SelectSeq(virtual_tasks, IsDiscovery)[i])])
    /\ hpc' = "slots"
    /\ UNCHANGED <<virtual_tasks, top_n, final_recommendations, existing_task_ids,
                   discovery_count, returned>>
    /\ HybridFrame

\* Lines 495-503: the hybrid slots and the set of their ids.
HybridTakeSlots ==
    /\ hpc = "slots"
    /\ final_recommendations' = Take(hybrid_recommendations, NumHybrid(top_n))
    /\ existing_task_ids' =
         {t.task_id : t \in SeqRange(Take(hybrid_recommendations, NumHybrid(top_n)))}
    /\ discovery_count' = 0
    /\ hpc' = "discovery"
    /\ UNCHANGED <<virtual_tasks, top_n, hybrid_recommendations, cf_discovery, returned>>
    /\ HybridFrame

\* Lines 504-509: append discovery tasks. existing_task_ids is not updated.
HybridAddDiscovery ==
    /\ hpc = "discovery"
    /\ LET r == DiscoveryLoop(cf_discovery, existing_task_ids,
                              top_n - NumHybrid(top_n), final_recommendations, 0)
       IN  /\ final_recommendations' = r.final
           /\ discovery_count' = r.count
    /\ hpc' = "backfill"
    /\ UNCHANGED <<virtual_tasks, top_n, hybrid_recommendations, cf_discovery,
                   existing_task_ids, returned>>
    /\ HybridFrame

\* Lines 512-517: fill the free slots from the rest of the hybrid ranking.
HybridBackfill ==
    /\ hpc = "backfill"
    /\ final_recommendations' =
         IF Len(final_recommendations) < top_n
         THEN BackfillLoop(Drop(hybrid_recommendations, NumHybrid(top_n)),
                           existing_task_ids, top_n, final_recommendations)
         ELSE final_recommendations
    /\ hpc' = "return"
    /\ UNCHANGED <<virtual_tasks, top_n, hybrid_recommendations, cf_discovery,
                   existing_task_ids, discovery_count, returned>>
    /\ HybridFrame

\* Line 533: return final_recommendations[:top_n]
HybridReturn ==
    /\ hpc = "return"
    /\ returned' = Take(final_recommendations, top_n)
    /\ hpc' = "done"
    /\ UNCHANGED <<virtual_tasks, top_n, hybrid_recommendations, cf_discovery,
                   final_recommendations, existing_task_ids, discovery_count>>
    /\ HybridFrame

HybridNext ==
    \/ HybridCall
    \/ HybridScoreTasks
    \/ HybridTakeSlots
    \/ HybridAddDiscovery
    \/ HybridBackfill
    \/ HybridReturn



(***************************************************************************)
(* Claims about the hybrid list.                                           *)
(***************************************************************************)

TaskIdsOf(seq) == {seq[i].task_id : i \in DOMAIN seq}

\* C1: in hybrid mode, with pairwise distinct candidate task ids and
\* top_n >= 1, no task id appears more than once in the returned list.
C1_NoDuplicateTaskIds ==
    hpc = "done" =>
        \A i, j \in DOMAIN returned :
            i # j => returned[i].task_id # returned[j].task_id

\* The hybrid score of candidate task id (ids are list positions).
HybridScoreOfTask(id) ==
    HybridScoreOf(virtual_tasks[id].content_score, virtual_tasks[id].cf_score)

\* Discovery candidates that are not among the hybrid slots.
EligibleDiscovery ==
    {i \in DOMAIN virtual_tasks :
        /\ virtual_tasks[i].cf_score > 5000
        /\ virtual_tasks[i].content_score < 3000
        /\ i \notin TaskIdsOf(SubSeq(returned, 1, (4 * top_n) \div 5))}

\* C2: with at least top_n candidates the returned list has exactly top_n
\* entries: the first floor(0.8*top_n) are the highest hybrid-score tasks in
\* non-increasing score order; then come d <= top_n - floor(0.8*top_n)
\* discovery tasks (cf > 0.5, content < 0.3, not among the hybrid slots) in
\* non-increasing CF score, the best-CF ones, and as many as the free slots
\* and the candidates allow; the slots still free hold the next-highest
\* hybrid-score tasks of the ranking below the hybrid slots.
C2_HybridListShape ==
    (hpc = "done" /\ Len(virtual_tasks) >= top_n) =>
        LET nh == (4 * top_n) \div 5
            nd == top_n - nh
            d  == Cardinality({i \in DOMAIN returned : returned[i].is_discovery})
            slots == SubSeq(returned, 1, nh)
            disc  == SubSeq(returned, nh + 1, nh + d)
            fill  == SubSeq(returned, nh + d + 1, Len(returned))
        IN  /\ Len(returned) = top_n
            /\ d <= nd
            \* the hybrid slots
            /\ \A i \in DOMAIN slots :
                 /\ ~slots[i].is_discovery
                 /\ slots[i].score = HybridScoreOfTask(slots[i].task_id)
            /\ \A i, j \in DOMAIN slots : i < j => slots[i].score >= slots[j].score
            /\ \A i, j \in DOMAIN slots : i # j => slots[i].task_id # slots[j].task_id
            /\ \A t \in DOMAIN virtual_tasks : \A i \in DOMAIN slots :
                 t \notin TaskIdsOf(slots) => HybridScoreOfTask(t) <= slots[i].score
            \* the discovery entries
            /\ \A i \in DOMAIN disc :
                 /\ disc[i].is_discovery
                 /\ disc[i].task_id \in EligibleDiscovery
                 /\ disc[i].score = virtual_tasks[disc[i].task_id].cf_score
            /\ \A i, j \in DOMAIN disc : i < j => disc[i].score >= disc[j].score
            /\ \A i, j \in DOMAIN disc : i # j => disc[i].task_id # disc[j].task_id
            /\ d = Min2(nd, Cardinality(EligibleDiscovery))
            /\ \A t \in EligibleDiscovery : \A i \in DOMAIN disc :
                 t \notin TaskIdsOf(disc) => virtual_tasks[t].cf_score <= disc[i].score
            \* the backfill from the ranking below the hybrid slots
            /\ \A i \in DOMAIN fill :
                 /\ ~fill[i].is_discovery
                 /\ fill[i].task_id \notin TaskIdsOf(slots)
                 /\ fill[i].score = HybridScoreOfTask(fill[i].task_id)
            /\ \A i, j \in DOMAIN fill : i < j => fill[i].score >= fill[j].score
            /\ \A i, j \in DOMAIN fill : i # j => fill[i].task_id # fill[j].task_id
            /\ \A t \in DOMAIN virtual_tasks : \A i \in DOMAIN fill :
                 (t \notin TaskIdsOf(slots) /\ t \notin TaskIdsOf(fill))
                     => HybridScoreOfTask(t) <= fill[i].score

\* C2 witness: a returned list with hybrid slots, a discovery entry and a
\* backfilled entry.
C2_Witness ==
    /\ hpc = "done"
    /\ Len(virtual_tasks) >= top_n
    /\ top_n >= 5
    /\ discovery_count >= 1
    /\ \E i \in DOMAIN returned : returned[i].is_discovery
    /\ ~returned[Len(returned)].is_discovery


(***************************************************************************)
(* The rank-decay matchers of the content score.                           *)
(* recommendation_algorithm.py, _match_target, _match_region_from_profile, *)
(* _match_target_category                                                  *)
(***************************************************************************)

\* Labels (target ids, cluster ids, category names) are 1..MaxLabel.
MaxLabel == 7

\* Sub-score levels, in units of 1e-4.
ScoreNoPreference == 5000     \* return 0.5
ScoreNoTargetInfo == 3000     \* return 0.3
ScoreNoMatch == 1000          \* return 0.1
ScoreTop == 10000             \* 1.0
ScoreStep == 2000             \* i * 0.2
ScoreMatchFloor == 2000       \* max(score, 0.2)

\* The elements of a set of integers as an increasing sequence.
SetToIncSeq(S) ==
    [i \in 1..Cardinality(S) |->
        CHOOSE x \in S : Cardinality({y \in S : y < x}) = i - 1]

\* score = 1.0 - i * 0.2 at 0-based rank i (list position p = i + 1)
DecayAt(p) == ScoreTop - (p - 1) * ScoreStep

\* for i, pref in enumerate(preferred): if pref == label: return max(score, 0.2)
\* return 0.1
FirstMatchScore(prefs, label) ==
    LET hits == {p \in DOMAIN prefs : prefs[p] = label}
    IN  IF hits = {} THEN ScoreNoMatch
        ELSE LET p == CHOOSE q \in hits : \A h \in hits : q <= h
             IN  Max2(DecayAt(p), ScoreMatchFloor)

\* _match_target(preferred_targets, target_id)
MatchTarget(preferred_targets, target_id) ==
    IF preferred_targets = <<>> THEN ScoreNoPreference
    ELSE FirstMatchScore(preferred_targets, target_id)

\* _match_region_from_profile(preferred_regions, spatial_density_labels)
MatchRegionFromProfile(preferred_regions, spatial_density_labels) ==
    IF preferred_regions = <<>> THEN ScoreNoPreference
    ELSE IF spatial_density_labels = <<>> THEN ScoreNoTargetInfo
    ELSE FirstMatchScore(preferred_regions, spatial_density_labels[1])

\* max_score = 0.0; for i, pref: if pref in names: max_score = max(max_score,
\* 1.0 - i * 0.2)
RECURSIVE CategoryMaxScore(_, _, _, _)
CategoryMaxScore(prefs, names, p, max_score) ==
    IF p > Len(prefs) THEN max_score
    ELSE CategoryMaxScore(prefs, names, p + 1,
            IF prefs[p] \in names THEN Max2(max_score, DecayAt(p)) ELSE max_score)

\* _match_target_category(preferred_categories, target_categories)
MatchTargetCategory(preferred_categories, target_categories) ==
    IF preferred_categories = <<>> THEN ScoreNoPreference
    ELSE IF target_categories = <<>> THEN ScoreNoTargetInfo
    ELSE Max2(CategoryMaxScore(preferred_categories, SeqRange(target_categories), 1, 0),
              ScoreNoMatch)

MatchDimensions == {"target", "region", "category"}

\* Ranked preference lists hold pairwise distinct labels; up to renaming of
\* labels every such list is an increasing one.
PreferenceLists == {SetToIncSeq(S) : S \in SUBSET (1..MaxLabel)}

\* What the target carries: its id; zero or one cluster entry; zero to two
\* category entries.
TargetLabelLists(dim) ==
    IF dim = "target" THEN {<<l>> : l \in 1..MaxLabel}
    ELSE IF dim = "region" THEN {<<>>} \cup {<<l>> : l \in 1..MaxLabel}
    ELSE {<<>>} \cup {<<l>> : l \in 1..MaxLabel}
              \cup {<<l, MaxLabel>> : l \in 1..(MaxLabel - 1)}

MatchFrame ==
    UNCHANGED <<hybridVars, cfVars, remapVars, profileVars, personaVars, scoreVars,
          tagVars,
          hhiVars,
          demandVars,
          resVars,
          countVars,
          initVars,
          entryVars,
          lookupVars,
          parVars,
          tuneVars,
          autoVars>>

MatchIdle ==
    /\ mpc = "idle"
    /\ dimension = "none"
    /\ preferred = <<>>
    /\ target_labels = <<>>
    /\ match_score = 0

MatchCall ==
    /\ mpc = "idle"
    /\ \E dim \in MatchDimensions :
         /\ dimension' = dim
         /\ \E tl \in TargetLabelLists(dim) : target_labels' = tl
    /\ \E prefs \in PreferenceLists : preferred' = prefs
    /\ mpc' = "called"
    /\ UNCHANGED match_score
    /\ MatchFrame

MatchReturn ==
    /\ mpc = "called"
    /\ match_score' =
         IF dimension = "target" THEN MatchTarget(preferred, target_labels[1])
         ELSE IF dimension = "region" THEN MatchRegionFromProfile(preferred, target_labels)
         ELSE MatchTargetCategory(preferred, target_labels)
    /\ mpc' = "done"
    /\ UNCHANGED <<dimension, preferred, target_labels>>
    /\ MatchFrame

MatchNext ==
    \/ MatchCall
    \/ MatchReturn

\* C9: in the rank-decay dimensions (target id, spatial cluster, category) a
\* preference match at 0-based rank r scores max(1.0 - 0.2*r, 0.2), for every
\* rank and list length; only a non-match scores 0.1.
C9_RankDecayFloor ==
    (mpc = "done" /\ preferred # <<>> /\ target_labels # <<>>) =>
        LET carried == IF dimension = "category" THEN SeqRange(target_labels)
                       ELSE {target_labels[1]}
            ranks == {p - 1 : p \in {q \in DOMAIN preferred : preferred[q] \in carried}}
        IN  IF ranks = {} THEN match_score = 1000
            ELSE LET r == CHOOSE x \in ranks : \A y \in ranks : x <= y
                 IN  match_score = Max2(10000 - 2000 * r, 2000)

(***************************************************************************)
(* User-based collaborative filtering.                                     *)
(* recommendation_algorithm.py, _user_based_cf, _get_top_k_similar_users   *)
(***************************************************************************)

\* Number of personas handed to _user_based_cf.
MaxCfUsers == 3

\* Task ids of the candidate tasks.
CfTaskIds == {"VTASK001", "VTASK002"}

\* Values _compute_similarity returns (units of 1e-4); 0 is "no similarity".
SimilarityValues == {0, 3000, 6000}

\* K, the number of neighbours kept.
TopKChoices == {1, 2}

\* _compute_user_similarities: a symmetric dict that holds a pair only when
\* its similarity is > 0. raw gives the similarity of each pair i < j.
SimilarityDict(n, raw) ==
    LET pairs == {p \in (1..n) \X (1..n) :
                    p[1] # p[2] /\ raw[<<Min2(p[1], p[2]), Max2(p[1], p[2])>>] > 0}
    IN  [p \in pairs |-> raw[<<Min2(p[1], p[2]), Max2(p[1], p[2])>>]]

\* The (uid_j, similarity) entries of user u in dict order: the dict is
\* filled for i < j with (i, j) then (j, i), which lists u's partners by
\* ascending index.
RECURSIVE SimilarUsersFrom(_, _, _, _)
SimilarUsersFrom(sims, u, v, n) ==
    IF v > n THEN <<>>
    ELSE (IF <<u, v>> \in DOMAIN sims THEN <<[user |-> v, score |-> sims[<<u, v>>]]>>
          ELSE <<>>) \o SimilarUsersFrom(sims, u, v + 1, n)

\* Mutant of GetTopKSimilarUsers: the sort without reverse=True.
RECURSIVE ReverseSeq(_)
ReverseSeq(seq) ==
    IF seq = <<>> THEN <<>> ELSE Append(ReverseSeq(Tail(seq)), Head(seq))

GetTopKSimilarUsersAscending(u, sims, k, n) ==
    Take(ReverseSeq(SortByScoreDesc(SimilarUsersFrom(sims, u, 1, n))), k)

\* _get_top_k_similar_users: sort by similarity, descending, keep k.
GetTopKSimilarUsers(u, sims, k, n) ==
    Take(SortByScoreDesc(SimilarUsersFrom(sims, u, 1, n)), k)

\* user_task_interactions.get(user, set())
InteractionsOf(inter, u) == IF u \in DOMAIN inter THEN inter[u] ELSE {}

\* task_scores[task_id] += similarity, over the similar users that interacted
\* with the task
RECURSIVE AccumulateScore(_, _, _)
AccumulateScore(similar_users, inter, t) ==
    IF similar_users = <<>> THEN 0
    ELSE (IF t \in InteractionsOf(inter, Head(similar_users).user)
          THEN Head(similar_users).score ELSE 0)
         + AccumulateScore(Tail(similar_users), inter, t)

\* The keys of task_scores for user u: tasks of the similar users that u
\* has not interacted with.
ScoredTasks(similar_users, inter, u) ==
    {t \in UNION {InteractionsOf(inter, similar_users[i].user) : i \in DOMAIN similar_users} :
        t \notin InteractionsOf(inter, u)}

SetMax(S) == CHOOSE x \in S : \A y \in S : y <= x

\* task_scores of one user: task -> accumulated similarity
TaskScores(similar_users, inter, u) ==
    [t \in ScoredTasks(similar_users, inter, u) |-> AccumulateScore(similar_users, inter, t)]

\* max(task_scores.values())
MaxScore(task_scores) == SetMax({task_scores[t] : t \in DOMAIN task_scores})

\* The normalisation at the end of each iteration of _user_based_cf:
\* cf_scores[(user, task)] = task_scores[task] / max_score, kept as num/den.
NormalisedCfScores(n, task_scores) ==
    LET keys == {p \in (1..n) \X CfTaskIds :
                    /\ p[2] \in DOMAIN task_scores[p[1]]
                    /\ MaxScore(task_scores[p[1]]) > 0}
    IN  [p \in keys |-> [num |-> task_scores[p[1]][p[2]],
                         den |-> MaxScore(task_scores[p[1]])]]

CfFrame ==
    UNCHANGED <<hybridVars, matchVars, remapVars, profileVars, personaVars, scoreVars,
          tagVars,
          hhiVars,
          demandVars,
          resVars,
          countVars,
          initVars,
          entryVars,
          lookupVars,
          parVars,
          tuneVars,
          autoVars>>

CfIdle ==
    /\ cfpc = "idle"
    /\ cf_users = 0
    /\ user_task_interactions = <<>>
    /\ user_similarities = <<>>
    /\ top_k_neighbors = 0
    /\ cf_scores = <<>>

\* recommend_tasks_for_users calls _user_based_cf when there are at least
\* two personas; the interactions are the caller's or the implicit ones.
CfCall ==
    /\ cfpc = "idle"
    /\ \E n \in 2..MaxCfUsers :
         /\ cf_users' = n
         /\ \E inter \in [1..n -> SUBSET CfTaskIds] : user_task_interactions' = inter
         /\ \E raw \in [{p \in (1..n) \X (1..n) : p[1] < p[2]} -> SimilarityValues] :
              user_similarities' = SimilarityDict(n, raw)
    /\ \E k \in TopKChoices : top_k_neighbors' = k
    /\ cfpc' = "called"
    /\ UNCHANGED cf_scores
    /\ CfFrame

\* The whole loop of _user_based_cf over the personas.
CfCompute ==
    /\ cfpc = "called"
    /\ \E similar_users \in {[u \in 1..cf_users |->
              GetTopKSimilarUsers(u, user_similarities, top_k_neighbors, cf_users)]} :
         \E task_scores \in {[u \in 1..cf_users |->
                 TaskScores(similar_users[u], user_task_interactions, u)]} :
            cf_scores' = NormalisedCfScores(cf_users, task_scores)
    /\ cfpc' = "done"
    /\ UNCHANGED <<cf_users, user_task_interactions, user_similarities, top_k_neighbors>>
    /\ CfFrame

CfNext ==
    \/ CfCall
    \/ CfCompute

\* The partners of u with a positive similarity.
PartnersOf(u) == {v \in 1..cf_users : <<u, v>> \in DOMAIN user_similarities}

\* Sum of the similarities of the users of N that interacted with t.
RECURSIVE SimSum(_, _, _)
SimSum(u, N, t) ==
    IF N = {} THEN 0
    ELSE LET v == CHOOSE x \in N : TRUE
         IN  (IF t \in user_task_interactions[v] THEN user_similarities[<<u, v>>] ELSE 0)
             + SimSum(u, N \ {v}, t)

MaxItems == 3

\* Raw labels a clustering run may hand back: noise and cluster numbers.
NoiseLabel == -1
RawLabels == {NoiseLabel, 0, 1, 5}

\* dict.get(key, default) and dict[key] = value
DictGet(d, key, default) == IF key \in DOMAIN d THEN d[key] ELSE default
DictPut(d, key, value) ==
    [x \in DOMAIN d \cup {key} |-> IF x = key THEN value ELSE d[x]]

\* Mutant of RemapLabels: the raw labels are stored as they are.
RECURSIVE RemapLabelsRaw(_, _, _, _, _, _)
RemapLabelsRaw(ids, labels, i, label_map, next_label, res) ==
    IF i > Min2(Len(ids), Len(labels)) THEN res
    ELSE RemapLabelsRaw(ids, labels, i + 1, label_map, next_label,
                        DictPut(res, ids[i], labels[i]))

\* The loop over zip(item_ids, labels): noise stays -1, every other raw
\* label gets the next free number the first time it is seen.
RECURSIVE RemapLabels(_, _, _, _, _, _)
RemapLabels(ids, labels, i, label_map, next_label, res) ==
    IF i > Min2(Len(ids), Len(labels)) THEN res
    ELSE IF labels[i] = NoiseLabel
         THEN RemapLabels(ids, labels, i + 1, label_map, next_label,
                          DictPut(res, ids[i], NoiseLabel))
         ELSE IF labels[i] \notin DOMAIN label_map
              THEN RemapLabels(ids, labels, i + 1,
                               DictPut(label_map, labels[i], next_label),
                               next_label + 1,
                               DictPut(res, ids[i], next_label))
              ELSE RemapLabels(ids, labels, i + 1, label_map, next_label,
                               DictPut(res, ids[i], label_map[labels[i]]))

RemapFrame ==
    UNCHANGED <<hybridVars, matchVars, cfVars, profileVars, personaVars, scoreVars,
          tagVars,
          hhiVars,
          demandVars,
          resVars,
          countVars,
          initVars,
          entryVars,
          lookupVars,
          parVars,
          tuneVars,
          autoVars>>

RemapIdle ==
    /\ rpc = "idle"
    /\ item_ids = <<>>
    /\ raw_labels = <<>>
    /\ result = <<>>

\* fit_predict up to the return of _cluster_with_auto_tune: one label per
\* coordinate; the caller's item ids need not be distinct.
RemapCall ==
    /\ rpc = "idle"
    /\ \E n \in 1..MaxItems :
         /\ \E ids \in [1..n -> 1..MaxItems] : item_ids' = ids
         /\ \E labels \in [1..n -> RawLabels] : raw_labels' = labels
    /\ rpc' = "clustered"
    /\ UNCHANGED result
    /\ RemapFrame

RemapReturn ==
    /\ rpc = "clustered"
    /\ result' = RemapLabels(item_ids, raw_labels, 1, <<>>, 0, <<>>)
    /\ rpc' = "done"
    /\ UNCHANGED <<item_ids, raw_labels>>
    /\ RemapFrame

RemapNext ==
    \/ RemapCall
    \/ RemapReturn

DistinctItemIds == \A i, j \in DOMAIN item_ids : item_ids[i] = item_ids[j] => i = j

\* Index of the first item carrying raw label l.
FirstSeen(l) == CHOOSE i \in DOMAIN raw_labels :
                    /\ raw_labels[i] = l
                    /\ \A j \in DOMAIN raw_labels : raw_labels[j] = l => i <= j

NonNoiseRaw == {raw_labels[i] : i \in DOMAIN raw_labels} \ {-1}

\* C6: for pairwise-distinct item ids, distinct raw cluster labels get
\* distinct ids, the non-noise ids are exactly 0..k-1 (k = number of distinct
\* non-noise raw labels) numbered in first-seen order, and an item maps to
\* -1 if and only if its raw label is -1.
C6_RemapInjectiveContiguous ==
    (rpc = "done" /\ DistinctItemIds) =>
        /\ DOMAIN result = {item_ids[i] : i \in DOMAIN item_ids}
        /\ \A i, j \in DOMAIN item_ids :
             (raw_labels[i] # -1 /\ raw_labels[j] # -1 /\ raw_labels[i] # raw_labels[j])
                => result[item_ids[i]] # result[item_ids[j]]
        /\ {result[x] : x \in DOMAIN result} \ {-1} = 0..(Cardinality(NonNoiseRaw) - 1)
        /\ \A a, b \in NonNoiseRaw :
             FirstSeen(a) < FirstSeen(b)
                => result[item_ids[FirstSeen(a)]] < result[item_ids[FirstSeen(b)]]
        /\ \A i \in DOMAIN item_ids :
             (result[item_ids[i]] = -1) <=> (raw_labels[i] = -1)

\* C6 witness: distinct item ids, a noise item, and two raw clusters of which
\* the one seen first has the larger raw number.
C6_Witness ==
    /\ rpc = "done"
    /\ DistinctItemIds
    /\ Len(item_ids) = 3
    /\ raw_labels = <<5, -1, 0>>
    /\ result[item_ids[1]] = 0
    /\ result[item_ids[2]] = -1
    /\ result[item_ids[3]] = 1

(***************************************************************************)
(* DBSCAN clustering with auto-tuning.                                     *)
(* clustering.py, _cluster_with_auto_tune, fit_predict, cluster_coordinates*)
(* Coordinates are points on one great circle, given as whole kilometres   *)
(* along it, so the haversine distance of two points is the difference.    *)
(***************************************************************************)

Abs(x) == IF x < 0 THEN -x ELSE x

\* eps_scales, in tenths
EpsScalesTenths == <<2, 3, 4, 5, 6, 8, 10, 13, 17, 22>>

\* max_attempts and noise_ratio_threshold (in percent), the defaults
MaxAttempts == 10
NoiseRatioThresholdPct == 45

\* Points within eps of point i (i itself included). eps10 is ten times eps
\* in kilometres.
Neighborhood(coords, i, eps10) ==
    {j \in DOMAIN coords : 10 * Abs(coords[i] - coords[j]) <= eps10}

IsCorePoint(coords, i, eps10, min_samples) ==
    Cardinality(Neighborhood(coords, i, eps10)) >= min_samples

\* The points a cluster grows to from the set S: unlabelled points within
\* eps of a core point already in the cluster.
RECURSIVE ExpandCluster(_, _, _, _, _)
ExpandCluster(coords, eps10, min_samples, S, unlabelled) ==
    LET reached == {v \in unlabelled \ S :
                      \E c \in S : /\ IsCorePoint(coords, c, eps10, min_samples)
                                   /\ v \in Neighborhood(coords, c, eps10)}
    IN  IF reached = {} THEN S
        ELSE ExpandCluster(coords, eps10, min_samples, S \cup reached, unlabelled)

\* DBSCAN(eps, min_samples).fit_predict: points are visited by index, an
\* unlabelled core point opens the next cluster.
RECURSIVE DbscanLoop(_, _, _, _, _, _)
DbscanLoop(coords, eps10, min_samples, i, labels, label_num) ==
    IF i > Len(coords) THEN labels
    ELSE IF labels[i] # NoiseLabel \/ ~IsCorePoint(coords, i, eps10, min_samples)
         THEN DbscanLoop(coords, eps10, min_samples, i + 1, labels, label_num)
         ELSE LET members == ExpandCluster(coords, eps10, min_samples, {i},
                                           {j \in DOMAIN labels : labels[j] = NoiseLabel})
              IN  DbscanLoop(coords, eps10, min_samples, i + 1,
                             [j \in DOMAIN labels |->
                                 IF j \in members THEN label_num ELSE labels[j]],
                             label_num + 1)

ApplyDbscan(coords, eps10, min_samples) ==
    DbscanLoop(coords, eps10, min_samples, 1, [j \in DOMAIN coords |-> NoiseLabel], 0)

ClusterCount(labels) == Cardinality({labels[j] : j \in DOMAIN labels} \ {NoiseLabel})
NoiseCount(labels) == Cardinality({j \in DOMAIN labels : labels[j] = NoiseLabel})

\* score = cluster_count - |cluster_count - desired| * 0.7 - noise_ratio,
\* times 10 * len(labels)
AttemptScore(labels, desired) ==
    10 * Len(labels) * ClusterCount(labels)
    - 7 * Len(labels) * Abs(ClusterCount(labels) - desired)
    - 10 * NoiseCount(labels)

\* the same without the noise-ratio alternative
AttemptAcceptedByCount(labels, desired) ==
    ClusterCount(labels) >= desired

\* an attempt is taken at once when it has enough clusters, or any cluster
\* and little noise
AttemptAccepted(labels, desired) ==
    \/ ClusterCount(labels) >= desired
    \/ /\ ClusterCount(labels) > 0
       /\ 100 * NoiseCount(labels) <= NoiseRatioThresholdPct * Len(labels)

\* min_samples of attempt a (counted from 1)
AttemptMinSamples(base_min_samples, a, n) ==
    Min2(Max2(1, base_min_samples
                 - Max2(0, (a - 1) - (Min2(MaxAttempts, Len(EpsScalesTenths)) \div 3))),
         n)

\* The attempt loop of _cluster_with_auto_tune.
RECURSIVE AutoTuneLoop(_, _, _, _, _, _, _, _)
AutoTuneLoop(coords, eps_km, base_min_samples, desired, a, has_best, best_score, best_labels) ==
    IF a > Min2(MaxAttempts, Len(EpsScalesTenths))
    THEN IF has_best THEN best_labels ELSE [j \in DOMAIN coords |-> NoiseLabel]
    ELSE LET labels == ApplyDbscan(coords, eps_km * EpsScalesTenths[a],
                                   AttemptMinSamples(base_min_samples, a, Len(coords)))
             score == AttemptScore(labels, desired)
         IN  IF AttemptAccepted(labels, desired) THEN labels
             ELSE IF ~has_best \/ score > best_score
                  THEN AutoTuneLoop(coords, eps_km, base_min_samples, desired, a + 1,
                                    TRUE, score, labels)
                  ELSE AutoTuneLoop(coords, eps_km, base_min_samples, desired, a + 1,
                                    has_best, best_score, best_labels)

ClusterWithAutoTune(coords, eps_km, min_samples, auto_tune, desired) ==
    IF ~auto_tune THEN ApplyDbscan(coords, 10 * eps_km, min_samples)
    ELSE AutoTuneLoop(coords, eps_km, min_samples, desired, 1, FALSE, 0, <<>>)

\* DBSCANClustering.fit_predict / cluster_coordinates
FitPredict(coords, ids, eps_km, min_samples, auto_tune, desired) ==
    IF coords = <<>> THEN <<>>
    ELSE LET half == IF Len(coords) \div 2 = 0 THEN 1 ELSE Len(coords) \div 2
             adjusted == Max2(1, Min2(min_samples, half))
         IN  RemapLabels(ids,
                         ClusterWithAutoTune(coords, eps_km, adjusted, auto_tune, desired),
                         1, <<>>, 0, <<>>)

(***************************************************************************)
(* The precomputed cluster map of test.py and the target profile builder.  *)
(* test.py main; target_profile_algorithm.py generate_target_profile;      *)
(* target_tag_calculator.py _calculate_spatial_density;                    *)
(* persona_tag_calculator.py _calculate_region_proportion                  *)
(***************************************************************************)

\* Target ids are 1..MaxTargets; missions are lists of at most MaxMissions.
MaxTargets == 3
MaxMissions == 3

\* target_info: the targets 1..MaxTargets-1, in this order, each with one
\* trajectory point. Target MaxTargets is referenced by missions only.
TargetInfoIds == [i \in 1..(MaxTargets - 1) |-> i]

\* Position of a target's first trajectory point, in km: 0, 50, 1000, 1050, ...
TargetPosition(t) == ((t - 1) \div 2) * 1000 + ((t - 1) % 2) * 50

\* req_start_time values of missions.
MissionTimes == {1, 2}
Missions == [target_id : 1..MaxTargets, req_start_time : MissionTimes]

\* The algorithm dict test.py hands to generate_target_profile; keys it
\* leaves out are shown with the defaults the builder reads them with.
TargetProfileConfig(cluster_map) ==
    [spatial_eps_km |-> 60, spatial_min_samples |-> 4, spatial_auto_tune |-> TRUE,
     spatial_min_clusters |-> 7, spatial_cluster_map |-> cluster_map]

\* test.py main: cluster_coordinates over the targets that have a coordinate.
PrecomputedClusterMap ==
    FitPredict([i \in DOMAIN TargetInfoIds |-> TargetPosition(TargetInfoIds[i])],
               TargetInfoIds, 80, 3, TRUE, 5)

\* _filter_missions_by_time with a start time only (0 stands for None)
FilterMissionsByTime(missions, start) ==
    LET Keep(m) == m.req_start_time >= start
    IN  IF start = 0 THEN missions ELSE SelectSeq(missions, Keep)

\* _group_missions_by_target: a dict, so groups come in first-seen order
RECURSIVE GroupMissionsByTarget(_, _)
GroupMissionsByTarget(missions, groups) ==
    IF missions = <<>> THEN groups
    ELSE LET m == Head(missions)
             at == {i \in DOMAIN groups : groups[i].target_id = m.target_id}
         IN  IF at = {}
             THEN GroupMissionsByTarget(Tail(missions),
                      Append(groups, [target_id |-> m.target_id, missions |-> <<m>>]))
             ELSE GroupMissionsByTarget(Tail(missions),
                      [i \in DOMAIN groups |->
                          IF i \in at
                          THEN [groups[i] EXCEPT !.missions = Append(@, m)]
                          ELSE groups[i]])

HasCoordinate(t) == \E i \in DOMAIN TargetInfoIds : TargetInfoIds[i] = t

\* compute_spatial_clustering_from_missions with item id = mission.target_id:
\* one point per mission whose target has a coordinate.
ComputeSpatialClusteringFromMissions(missions, eps_km, min_samples, auto_tune, desired) ==
    LET Located(m) == HasCoordinate(m.target_id)
        located == SelectSeq(missions, Located)
    IN  FitPredict([i \in DOMAIN located |-> TargetPosition(located[i].target_id)],
                   [i \in DOMAIN located |-> located[i].target_id],
                   eps_km, min_samples, auto_tune, desired)

\* _compute_global_clustering
ComputeGlobalClustering(missions, algorithm) ==
    ComputeSpatialClusteringFromMissions(missions, algorithm.spatial_eps_km,
        algorithm.spatial_min_samples, algorithm.spatial_auto_tune,
        algorithm.spatial_min_clusters)

\* Mutant of TargetTagCalculatorInit: global_cluster_labels left at its
\* default, None.
TargetTagCalculatorInitDefault(algorithm, labels) ==
    [config |-> algorithm, has_global_cluster_labels |-> FALSE,
     global_cluster_labels |-> <<>>]

\* TargetTagCalculator(algorithm, global_cluster_labels=...)
TargetTagCalculatorInit(algorithm, labels) ==
    [config |-> algorithm, has_global_cluster_labels |-> TRUE,
     global_cluster_labels |-> labels]

\* _calculate_spatial_density: the cluster id of the target of the missions
CalculateSpatialDensity(calculator, target_missions) ==
    IF calculator.has_global_cluster_labels
    THEN DictGet(calculator.global_cluster_labels, target_missions[1].target_id, NoiseLabel)
    ELSE DictGet(ComputeSpatialClusteringFromMissions(target_missions,
                     calculator.config.spatial_eps_km,
                     calculator.config.spatial_min_samples,
                     calculator.config.spatial_auto_tune,
                     calculator.config.spatial_min_clusters),
                 target_missions[1].target_id, NoiseLabel)

\* _calculate_region_proportion: the Counter of cluster ids over missions
ClusterCounts(missions, cluster_map) ==
    LET counted == {i \in DOMAIN missions : missions[i].target_id \in DOMAIN cluster_map}
    IN  [c \in {cluster_map[missions[i].target_id] : i \in counted} |->
            Cardinality({i \in counted : cluster_map[missions[i].target_id] = c})]

ProfileFrame ==
    UNCHANGED <<hybridVars, matchVars, cfVars, remapVars, personaVars, scoreVars,
          tagVars,
          hhiVars,
          demandVars,
          resVars,
          countVars,
          initVars,
          entryVars,
          lookupVars,
          parVars,
          tuneVars,
          autoVars>>

ProfileIdle ==
    /\ tpc = "idle"
    /\ mission = <<>>
    /\ start_time = 0
    /\ spatial_cluster_map = <<>>
    /\ cluster_counts = <<>>
    /\ missions_by_target = <<>>
    /\ global_cluster_labels = <<>>
    /\ tag_calculator = <<>>
    /\ profiles = <<>>
    /\ clustering_runs = 0

\* test.py main: the data is loaded and the cluster map computed once.
ProfileMain ==
    /\ tpc = "idle"
    /\ \E n \in 1..MaxMissions : \E ms \in [1..n -> Missions] : mission' = ms
    /\ \E st \in {0} \cup MissionTimes : start_time' = st
    /\ spatial_cluster_map' = PrecomputedClusterMap
    /\ tpc' = "main"
    /\ UNCHANGED <<cluster_counts, missions_by_target, global_cluster_labels,
                   tag_calculator, profiles, clustering_runs>>
    /\ ProfileFrame

\* The persona builder, run with 'spatial_cluster_map': the region tag
\* counts the map's ids over the filtered missions.
ProfilePersona ==
    /\ tpc = "main"
    /\ cluster_counts' = ClusterCounts(FilterMissionsByTime(mission, start_time),
                                       spatial_cluster_map)
    /\ tpc' = "persona"
    /\ UNCHANGED <<mission, start_time, spatial_cluster_map, missions_by_target,
                   global_cluster_labels, tag_calculator, profiles, clustering_runs>>
    /\ ProfileFrame

\* generate_target_profile: time filter and grouping
ProfileGroup ==
    /\ tpc = "persona"
    /\ mission' = FilterMissionsByTime(mission, start_time)
    /\ missions_by_target' = GroupMissionsByTarget(mission', <<>>)
    /\ tpc' = "grouped"
    /\ UNCHANGED <<start_time, spatial_cluster_map, cluster_counts,
                   global_cluster_labels, tag_calculator, profiles, clustering_runs>>
    /\ ProfileFrame

\* generate_target_profile: _compute_global_clustering
ProfileGlobalClustering ==
    /\ tpc = "grouped"
    /\ global_cluster_labels' =
          ComputeGlobalClustering(mission, TargetProfileConfig(spatial_cluster_map))
    /\ clustering_runs' = clustering_runs + 1
    /\ tpc' = "clustered"
    /\ UNCHANGED <<mission, start_time, spatial_cluster_map, cluster_counts,
                   missions_by_target, tag_calculator, profiles>>
    /\ ProfileFrame

\* generate_target_profile: the tag calculator is built
ProfileCalculator ==
    /\ tpc = "clustered"
    /\ tag_calculator' = TargetTagCalculatorInit(TargetProfileConfig(spatial_cluster_map),
                                                 global_cluster_labels)
    /\ tpc' = "tags"
    /\ UNCHANGED <<mission, start_time, spatial_cluster_map, cluster_counts,
                   missions_by_target, global_cluster_labels, profiles, clustering_runs>>
    /\ ProfileFrame

\* generate_target_profile: one iteration of the loop over missions_by_target
ProfileTarget ==
    /\ tpc = "tags"
    /\ Len(profiles) < Len(missions_by_target)
    /\ LET group == missions_by_target[Len(profiles) + 1]
       IN  profiles' = Append(profiles,
              [target_id |-> group.target_id,
               cluster_id |-> CalculateSpatialDensity(tag_calculator, group.missions)])
    /\ clustering_runs' = IF tag_calculator.has_global_cluster_labels
                          THEN clustering_runs ELSE clustering_runs + 1
    /\ UNCHANGED <<tpc, mission, start_time, spatial_cluster_map, cluster_counts,
                   missions_by_target, global_cluster_labels, tag_calculator>>
    /\ ProfileFrame

ProfileReturn ==
    /\ tpc = "tags"
    /\ Len(profiles) = Len(missions_by_target)
    /\ tpc' = "done"
    /\ UNCHANGED <<mission, start_time, spatial_cluster_map, cluster_counts,
                   missions_by_target, global_cluster_labels, tag_calculator,
                   profiles, clustering_runs>>
    /\ ProfileFrame

ProfileNext ==
    \/ ProfileMain
    \/ ProfilePersona
    \/ ProfileGroup
    \/ ProfileGlobalClustering
    \/ ProfileCalculator
    \/ ProfileTarget
    \/ ProfileReturn

\* C3: when the precomputed map is passed to both builders, the cluster id
\* in target t's spatial_density_label is the map's id for t, the id the
\* personas' region tag counts.
C3_SharedClusterAssignment ==
    tpc = "done" =>
        \A i \in DOMAIN profiles :
            profiles[i].target_id \in DOMAIN spatial_cluster_map =>
                profiles[i].cluster_id = spatial_cluster_map[profiles[i].target_id]

\* C4: the global clustering over the filtered missions is complete before
\* the first per-target tag is computed, every spatial_density_label is read
\* from that one map (-1 for a target absent from it), and no further
\* clustering run happens.
C4_GlobalClusteringFirst ==
    /\ profiles # <<>> => tpc \in {"tags", "done"}
    /\ tpc \in {"tags", "done"} =>
         /\ clustering_runs = 1
         /\ DOMAIN global_cluster_labels =
               {mission[i].target_id : i \in DOMAIN mission} \cap (1..(MaxTargets - 1))
         /\ \A i \in DOMAIN profiles :
              profiles[i].cluster_id =
                 IF profiles[i].target_id \in DOMAIN global_cluster_labels
                 THEN global_cluster_labels[profiles[i].target_id] ELSE -1

\* C4 witness: a finished run with a time window that leaves two missions,
\* after one clustering run; one target took cluster 0 from the map and one
\* target absent from the map got -1.
C4_Witness ==
    /\ tpc = "done"
    /\ start_time = 2
    /\ Len(mission) = 2
    /\ clustering_runs = 1
    /\ \E i \in DOMAIN profiles :
         /\ profiles[i].target_id \notin DOMAIN global_cluster_labels
         /\ profiles[i].cluster_id = -1
    /\ \E i \in DOMAIN profiles :
         /\ profiles[i].target_id \in DOMAIN global_cluster_labels
         /\ profiles[i].cluster_id = 0

(***************************************************************************)
(* The user persona builder.                                               *)
(* user_persona_algorithm.py, generate_user_persona, _calculate_global_    *)
(* stats, _group_missions_by_user; persona_tag_calculator.py __init__      *)
(* Strings are sequences of characters.                                    *)
(***************************************************************************)

\* Length of the mission list handed to generate_user_persona.
MaxPersonaMissions == 2

\* req_unit and req_group values: "A", "A_B" and "B_C", "C"
ReqUnits == {<<"A">>, <<"A", "_", "B">>}
ReqGroups == {<<"B", "_", "C">>, <<"C">>}
PersonaTargetIds == {"T1", "T2"}
PersonaMissions == [req_unit : ReqUnits, req_group : ReqGroups,
                    target_id : PersonaTargetIds, req_start_time : MissionTimes]

PreferenceAlgorithms == {"auto", "tfidf", "bm25", "percentage", "zscore"}

\* start_time values: None and a time that cuts the earlier missions off
PersonaStartTimes == {0, 2}

\* f"{mission.req_unit}_{mission.req_group}"
UserKey(m) == m.req_unit \o <<"_">> \o m.req_group

\* UserPersonaAlgorithm._filter_missions_by_time with a start time only
PersonaFilterMissionsByTime(missions, start) ==
    LET Keep(m) == m.req_start_time >= start
    IN  IF start = 0 THEN missions ELSE SelectSeq(missions, Keep)

\* 'global_stats' absent from the algorithm dict
NoGlobalStats == [computed |-> FALSE]

\* _calculate_global_stats; avg_mission_count is kept as num/den
CalculateGlobalStats(missions) ==
    LET keys == {UserKey(missions[i]) : i \in DOMAIN missions}
        targets == {missions[i].target_id : i \in DOMAIN missions}
    IN  [computed |-> TRUE,
         target_user_count |->
            [t \in targets |->
                Cardinality({UserKey(missions[i]) :
                                i \in {j \in DOMAIN missions : missions[j].target_id = t}})],
         total_users |-> Cardinality(keys),
         avg_mission_count |->
            IF Cardinality(keys) > 0
            THEN [num |-> Len(missions), den |-> Cardinality(keys)]
            ELSE [num |-> 0, den |-> 1]]

\* Mutant of PersonaTagCalculatorInit: global_stats not taken from the dict.
PersonaTagCalculatorInitNoStats(algorithm_config) ==
    [algorithm_config |-> algorithm_config, global_stats |-> NoGlobalStats]

\* PersonaTagCalculator(algorithm_config=algorithm):
\* self.global_stats = self.algorithm_config.get('global_stats', {})
PersonaTagCalculatorInit(algorithm_config) ==
    [algorithm_config |-> algorithm_config, global_stats |-> algorithm_config.global_stats]

\* _group_missions_by_user: a dict keyed by the user key; the user_id is that
\* of the first mission with the key.
RECURSIVE GroupMissionsByUser(_, _)
GroupMissionsByUser(missions, groups) ==
    IF missions = <<>> THEN groups
    ELSE LET m == Head(missions)
             at == {i \in DOMAIN groups : groups[i].user_key = UserKey(m)}
         IN  IF at = {}
             THEN GroupMissionsByUser(Tail(missions),
                      Append(groups,
                             [user_key |-> UserKey(m),
                              user_id |-> [req_unit |-> m.req_unit, req_group |-> m.req_group],
                              missions |-> <<m>>]))
             ELSE GroupMissionsByUser(Tail(missions),
                      [i \in DOMAIN groups |->
                          IF i \in at
                          THEN [groups[i] EXCEPT !.missions = Append(@, m)]
                          ELSE groups[i]])

PersonaFrame ==
    UNCHANGED <<hybridVars, matchVars, cfVars, remapVars, profileVars, scoreVars,
          tagVars,
          hhiVars,
          demandVars,
          resVars,
          countVars,
          initVars,
          entryVars,
          lookupVars,
          parVars,
          tuneVars,
          autoVars>>

PersonaIdle ==
    /\ ppc = "idle"
    /\ persona_mission = <<>>
    /\ persona_start_time = 0
    /\ persona_algorithm = [preference_algorithm |-> "auto", global_stats |-> NoGlobalStats]
    /\ persona_tag_calculator = <<>>
    /\ user_groups = <<>>
    /\ user_personas = <<>>

PersonaCall ==
    /\ ppc = "idle"
    /\ \E n \in 0..MaxPersonaMissions :
         \E ms \in [1..n -> PersonaMissions] : persona_mission' = ms
    /\ \E st \in PersonaStartTimes : persona_start_time' = st
    /\ \E algo \in PreferenceAlgorithms :
         persona_algorithm' = [preference_algorithm |-> algo, global_stats |-> NoGlobalStats]
    /\ ppc' = "called"
    /\ UNCHANGED <<persona_tag_calculator, user_groups, user_personas>>
    /\ PersonaFrame

\* _validate_input_data raises for an empty mission list
PersonaRaise ==
    /\ ppc = "called"
    /\ persona_mission = <<>>
    /\ ppc' = "raised"
    /\ UNCHANGED <<persona_mission, persona_start_time, persona_algorithm,
                   persona_tag_calculator, user_groups, user_personas>>
    /\ PersonaFrame

\* step 2: mission = filtered_mission
PersonaFilter ==
    /\ ppc = "called"
    /\ persona_mission # <<>>
    /\ persona_mission' = PersonaFilterMissionsByTime(persona_mission, persona_start_time)
    /\ ppc' = "filtered"
    /\ UNCHANGED <<persona_start_time, persona_algorithm, persona_tag_calculator,
                   user_groups, user_personas>>
    /\ PersonaFrame

\* step 3: algorithm['global_stats'] = _calculate_global_stats(mission)
PersonaGlobalStats ==
    /\ ppc = "filtered"
    /\ persona_algorithm' =
          IF persona_algorithm.preference_algorithm \in {"auto", "tfidf", "bm25"}
          THEN [persona_algorithm EXCEPT !.global_stats = CalculateGlobalStats(persona_mission)]
          ELSE persona_algorithm
    /\ ppc' = "stats"
    /\ UNCHANGED <<persona_mission, persona_start_time, persona_tag_calculator,
                   user_groups, user_personas>>
    /\ PersonaFrame

\* steps 4 and 5: the calculator is built and the missions are grouped
PersonaCalculator ==
    /\ ppc = "stats"
    /\ persona_tag_calculator' = PersonaTagCalculatorInit(persona_algorithm)
    /\ user_groups' = GroupMissionsByUser(persona_mission, <<>>)
    /\ ppc' = "users"
    /\ UNCHANGED <<persona_mission, persona_start_time, persona_algorithm, user_personas>>
    /\ PersonaFrame

\* one iteration of the loop over user_groups: the tags of one user are
\* computed; global_stats is what the preference scoring reads
PersonaUser ==
    /\ ppc = "users"
    /\ Len(user_personas) < Len(user_groups)
    /\ LET group == user_groups[Len(user_personas) + 1]
       IN  user_personas' = Append(user_personas,
              [user_id |-> group.user_id,
               missions |-> group.missions,
               global_stats |-> persona_tag_calculator.global_stats])
    /\ UNCHANGED <<ppc, persona_mission, persona_start_time, persona_algorithm,
                   persona_tag_calculator, user_groups>>
    /\ PersonaFrame

PersonaReturn ==
    /\ ppc = "users"
    /\ Len(user_personas) = Len(user_groups)
    /\ ppc' = "done"
    /\ UNCHANGED <<persona_mission, persona_start_time, persona_algorithm,
                   persona_tag_calculator, user_groups, user_personas>>
    /\ PersonaFrame

PersonaNext ==
    \/ PersonaCall
    \/ PersonaRaise
    \/ PersonaFilter
    \/ PersonaGlobalStats
    \/ PersonaCalculator
    \/ PersonaUser
    \/ PersonaReturn

UsesGlobalStats == persona_algorithm.preference_algorithm \in {"auto", "tfidf", "bm25"}

\* C5: with preference_algorithm in {auto, tfidf, bm25} the global
\* statistics are computed over the filtered missions of all users before
\* any user is scored, and stay as they are while the users are processed:
\* no persona exists before the statistics do, and every persona was scored
\* with the statistics of the whole filtered mission list.
C5_GlobalStatsBeforeScoring ==
    UsesGlobalStats =>
        /\ user_personas # <<>> => ppc \in {"users", "done"}
        /\ ppc \in {"users", "done"} =>
             /\ persona_algorithm.global_stats.computed
             /\ persona_algorithm.global_stats = CalculateGlobalStats(persona_mission)
             /\ persona_algorithm.global_stats.total_users = Len(user_groups)
             /\ \A i \in DOMAIN user_personas :
                  user_personas[i].global_stats = persona_algorithm.global_stats

\* C5 witness: a finished tf-idf run with a time window and two users on
\* one target.
C5_Witness ==
    /\ ppc = "done"
    /\ persona_algorithm.preference_algorithm = "tfidf"
    /\ persona_start_time = 2
    /\ Len(user_personas) = 2
    /\ user_personas[2].global_stats.total_users = 2
    /\ \E t \in DOMAIN user_personas[2].global_stats.target_user_count :
         user_personas[2].global_stats.target_user_count[t] = 2

\* C7: there is exactly one persona per distinct (req_unit, req_group) pair
\* of the filtered missions, and a persona holds the missions of one pair
\* only.
C7_OnePersonaPerUserPair ==
    ppc = "done" =>
        /\ Len(user_personas) =
              Cardinality({<<persona_mission[i].req_unit, persona_mission[i].req_group>> :
                              i \in DOMAIN persona_mission})
        /\ \A p \in DOMAIN user_personas :
             \A i \in DOMAIN user_personas[p].missions :
                /\ user_personas[p].missions[i].req_unit = user_personas[p].user_id.req_unit
                /\ user_personas[p].missions[i].req_group = user_personas[p].user_id.req_group

(***************************************************************************)
(* From the builders' tags to the category sub-score.                      *)
(* persona_tag_calculator.py _calculate_target_category;                   *)
(* target_tag_calculator.py generate_profile_tags, _calculate_target_type; *)
(* recommendation_algorithm.py _calculate_task_score                       *)
(* Strings are sequences of characters.                                    *)
(***************************************************************************)

\* Length of the user's mission list.
MaxUserMissions == 3

\* top_n of the persona tag calculator, the default
PersonaTopN == 3

\* target_info: three targets with their target_type and target_category
ScoreTargetInfo ==
    [T1 |-> [target_type |-> <<"S">>, target_category |-> <<"A">>],
     T2 |-> [target_type |-> <<"S">>, target_category |-> <<"B">>],
     T3 |-> [target_type |-> <<"G", "_", "S">>, target_category |-> <<"A">>]]

\* target ids missions may carry; T9 is not in target_info
MissionTargetIds == {"T1", "T2", "T3", "T9"}

\* str.split('_', 1): the text before the first "_" and the text after it
RECURSIVE SplitFirst(_, _)
SplitFirst(text, before) ==
    IF text = <<>> THEN <<before>>
    ELSE IF Head(text) = "_" THEN <<before, Tail(text)>>
         ELSE SplitFirst(Tail(text), Append(before, Head(text)))

\* Counter: the combos of the missions in first-seen order with their counts
RECURSIVE CountCombos(_, _)
CountCombos(combos, counter) ==
    IF combos = <<>> THEN counter
    ELSE LET at == {i \in DOMAIN counter : counter[i].combo = Head(combos)}
         IN  IF at = {}
             THEN CountCombos(Tail(combos),
                              Append(counter, [combo |-> Head(combos), score |-> 1]))
             ELSE CountCombos(Tail(combos),
                              [i \in DOMAIN counter |->
                                  IF i \in at
                                  THEN [counter[i] EXCEPT !.score = @ + 1]
                                  ELSE counter[i]])

\* PersonaTagCalculator._calculate_target_category
CalculateTargetCategory(missions, target_dict) ==
    LET Known(t) == t \in DOMAIN target_dict
        known == SelectSeq(missions, Known)
        combos == [i \in DOMAIN known |->
                      target_dict[known[i]].target_type \o <<"_">>
                          \o target_dict[known[i]].target_category]
        most_common == Take(SortByScoreDesc(CountCombos(combos, <<>>)), PersonaTopN)
    IN  [i \in DOMAIN most_common |->
            LET type_category == SplitFirst(most_common[i].combo, <<>>)
            IN  [target_type |-> type_category[1],
                 target_category |-> IF Len(type_category) > 1 THEN type_category[2] ELSE <<>>,
                 count |-> most_common[i].score]]

\* TargetTagCalculator._calculate_target_type for a target with n missions
CalculateTargetType(target_id, n, target_info) ==
    IF n = 0 \/ target_id \notin DOMAIN target_info THEN <<>>
    ELSE <<[target_type |-> target_info[target_id].target_type,
            target_category |-> target_info[target_id].target_category,
            count |-> n]>>

\* The keys generate_profile_tags writes.
ProfileTagKeys ==
    {"scout_cycle_label", "scout_frequency_label", "preferred_scout_scenario_label",
     "spatial_density_label", "target_type_label", "target_priority_label",
     "resolution_label", "mission_plan_type_label"}

\* TargetTagCalculator.generate_profile_tags; of the eight dimensions only
\* the type tag is worked out, the others are left empty.
GenerateProfileTags(target_id, n, target_info) ==
    [k \in ProfileTagKeys |->
        IF k = "target_type_label" THEN CalculateTargetType(target_id, n, target_info)
        ELSE <<>>]

\* tc.get('target_category', '') of every entry
CategoryNames(entries) == [i \in DOMAIN entries |-> entries[i].target_category]

\* _calculate_task_score, the category sub-score:
\* _match_target_category(persona_tags.get('preferred_target_category', []),
\*                        profile_tags.get('target_category', []))
CategoryMatchScore(p_tags, t_tags) ==
    MatchTargetCategory(CategoryNames(DictGet(p_tags, "preferred_target_category", <<>>)),
                        CategoryNames(DictGet(t_tags, "target_category", <<>>)))

ScoreFrame ==
    UNCHANGED <<hybridVars, matchVars, cfVars, remapVars, profileVars, personaVars,
          tagVars,
          hhiVars,
          demandVars,
          resVars,
          countVars,
          initVars,
          entryVars,
          lookupVars,
          parVars,
          tuneVars,
          autoVars>>

ScoreIdle ==
    /\ spc = "idle"
    /\ user_missions = <<>>
    /\ task_target_id = "none"
    /\ target_mission_count = 0
    /\ persona_tags = <<>>
    /\ profile_tags = <<>>
    /\ category_match_score = 0

\* The data: one user's missions, and a virtual task on a target that has
\* missions of its own.
ScoreCall ==
    /\ spc = "idle"
    /\ \E n \in 1..MaxUserMissions :
         \E ms \in [1..n -> MissionTargetIds] : user_missions' = ms
    /\ \E t \in DOMAIN ScoreTargetInfo : task_target_id' = t
    /\ \E c \in 1..2 : target_mission_count' = c
    /\ spc' = "loaded"
    /\ UNCHANGED <<persona_tags, profile_tags, category_match_score>>
    /\ ScoreFrame

\* generate_persona_tags, the category tag
ScorePersona ==
    /\ spc = "loaded"
    /\ persona_tags' = [k \in {"preferred_target_category"} |->
                           CalculateTargetCategory(user_missions, ScoreTargetInfo)]
    /\ spc' = "persona"
    /\ UNCHANGED <<user_missions, task_target_id, target_mission_count, profile_tags,
                   category_match_score>>
    /\ ScoreFrame

\* generate_profile_tags for the task's target
ScoreProfile ==
    /\ spc = "persona"
    /\ profile_tags' = GenerateProfileTags(task_target_id, target_mission_count,
                                           ScoreTargetInfo)
    /\ spc' = "profile"
    /\ UNCHANGED <<user_missions, task_target_id, target_mission_count, persona_tags,
                   category_match_score>>
    /\ ScoreFrame

\* _calculate_task_score on the two
ScoreTask ==
    /\ spc = "profile"
    /\ category_match_score' = CategoryMatchScore(persona_tags, profile_tags)
    /\ spc' = "done"
    /\ UNCHANGED <<user_missions, task_target_id, target_mission_count, persona_tags,
                   profile_tags>>
    /\ ScoreFrame

ScoreNext ==
    \/ ScoreCall
    \/ ScorePersona
    \/ ScoreProfile
    \/ ScoreTask

PreferredCategories == persona_tags["preferred_target_category"]

\* C8: for a persona and a target profile made by the builders, the category
\* sub-score is 1.0 when the target's (type, category) is the persona's
\* top-ranked preferred category, and 0.1 when the persona has preferred
\* categories and none of them is the target's category.
C8_CategoryScoreOfBuiltTags ==
    (spc = "done" /\ PreferredCategories # <<>>) =>
        /\ ( /\ PreferredCategories[1].target_type = ScoreTargetInfo[task_target_id].target_type
             /\ PreferredCategories[1].target_category
                   = ScoreTargetInfo[task_target_id].target_category )
              => category_match_score = 10000
        /\ (\A i \in DOMAIN PreferredCategories :
               PreferredCategories[i].target_category
                  # ScoreTargetInfo[task_target_id].target_category)
              => category_match_score = 1000

(***************************************************************************)
(* Ranked tag lists of personas and target profiles.                       *)
(* persona_tag_calculator.py, target_tag_calculator.py                     *)
(***************************************************************************)

\* missions of one user or one target
MaxTagMissions == 3
\* largest top_n of the configurations (the default is 3)
MaxTagTopN == 3

\* Texts are sequences of characters; a character outside ASCII is written
\* as its code point, "u672a".  ord(c) of the characters in use:
CharCode ==
    [c \in {" ", "1", "2", "3", "4", "5", "6", "7", "8", "9", "A", "B", "N", "P",
            "Q", "T", "_", "a", "b", "e", "g", "h", "l", "n", "o", "u", "u5206", "u7ec4",
            "u4fa6", "u5212", "u573a", "u578b", "u5b9a", "u5bdf", "u5f0f",
            "u6307", "u65b9", "u65e0", "u666f", "u672a", "u7387", "u77e5",
            "u7b79", "u7c7b", "u9891"} |->
        CASE c = " " -> 32 [] c = "1" -> 49 [] c = "2" -> 50 [] c = "3" -> 51
          [] c = "4" -> 52 [] c = "5" -> 53 [] c = "6" -> 54 [] c = "7" -> 55
          [] c = "8" -> 56 [] c = "9" -> 57 [] c = "P" -> 80 [] c = "Q" -> 81
          [] c = "T" -> 84 [] c = "_" -> 95 [] c = "g" -> 103 [] c = "h" -> 104
          [] c = "u5206" -> 20998 [] c = "u7ec4" -> 32452
          [] c = "A" -> 65 [] c = "B" -> 66 [] c = "N" -> 78
          [] c = "a" -> 97 [] c = "b" -> 98 [] c = "e" -> 101 [] c = "l" -> 108
          [] c = "n" -> 110 [] c = "o" -> 111 [] c = "u" -> 117
          [] c = "u4fa6" -> 20390 [] c = "u5212" -> 21010 [] c = "u573a" -> 22330
          [] c = "u578b" -> 22411 [] c = "u5b9a" -> 23450 [] c = "u5bdf" -> 23519
          [] c = "u5f0f" -> 24335 [] c = "u6307" -> 25351 [] c = "u65b9" -> 26041
          [] c = "u65e0" -> 26080 [] c = "u666f" -> 26223 [] c = "u672a" -> 26410
          [] c = "u7387" -> 29575 [] c = "u77e5" -> 30693 [] c = "u7b79" -> 31609
          [] c = "u7c7b" -> 31867 [] c = "u9891" -> 39057]

\* a < b on str: lexicographic on the code points
RECURSIVE StrLess(_, _)
StrLess(a, b) ==
    IF b = <<>> THEN FALSE
    ELSE IF a = <<>> THEN TRUE
    ELSE IF Head(a) = Head(b) THEN StrLess(Tail(a), Tail(b))
    ELSE CharCode[Head(a)] < CharCode[Head(b)]

\* the None object, and str(label)
PyNone == <<"None">>

Str(label) == IF label = PyNone THEN <<"N", "o", "n", "e">> ELSE label

\* Mutant of Percentage: the quotient rounded up.
PercentageRoundedUp(count, total) == (count * 10000 + total - 1) \div total

\* round(count / total * 100, 2), in hundredths of a percent
Percentage(count, total) == RoundHalfEven(count * 10000, total)

\* Counter.most_common(n): by count, descending; equal counts keep the order
\* in which the Counter first saw them
MostCommon(counter, n) == Take(SortByScoreDesc(counter), n)

\* sum(counter.values())
RECURSIVE CounterTotal(_)
CounterTotal(counter) ==
    IF counter = <<>> THEN 0 ELSE Head(counter).score + CounterTotal(Tail(counter))

\* target ids of the missions of a persona, and the precomputed
\* algorithm_config['spatial_cluster_map'] (T3 has no cluster)
TagTargetIds == {"T1", "T2", "T3"}
TagClusterMaps == { [t \in {"T1", "T2"} |-> IF t = "T1" THEN 1 ELSE 0],
                    [t \in {} |-> 0] }

\* PersonaTagCalculator._calculate_region_proportion: <<total, list>>
CalculateRegionProportion(target_ids, cluster_map, n) ==
    LET Clustered(t) == t \in DOMAIN cluster_map
        seen == SelectSeq(target_ids, Clustered)
        counter == CountCombos([i \in DOMAIN seen |-> cluster_map[seen[i]]], <<>>)
        total == CounterTotal(counter)
        top == MostCommon(counter, n)
    IN  IF DOMAIN cluster_map = {} \/ total = 0 THEN <<0, <<>>>>
        ELSE <<total,
               [i \in DOMAIN top |->
                   [cluster_id |-> top[i].combo, count |-> top[i].score,
                    percentage |-> Percentage(top[i].score, total)]]>>

\* labels a mission field of the target side can carry: two plain labels,
\* None, " NaN" and the sentinel u672a u77e5
TagLabelValues ==
    { <<"A">>, <<"B">>, PyNone, <<" ", "N", "a", "N">>, <<"u672a", "u77e5">> }

\* str.strip()
RECURSIVE LStrip(_)
LStrip(text) ==
    IF text # <<>> /\ Head(text) = " " THEN LStrip(Tail(text)) ELSE text

Strip(text) == ReverseSeq(LStrip(ReverseSeq(LStrip(text))))

\* str.lower()
Lower(text) ==
    [i \in DOMAIN text |->
        CASE text[i] = "A" -> "a" [] text[i] = "B" -> "b" [] text[i] = "N" -> "n"
          [] OTHER -> text[i]]

\* invalid_values of _is_invalid_label
InvalidValues ==
    { <<"n", "o", "n", "e">>, <<"n", "a", "n">>, <<"n", "u", "l", "l">>,
      <<"u672a", "u77e5", "u7c7b", "u578b">>, <<"u672a", "u77e5", "u4fa6", "u5bdf">>,
      <<"u672a", "u77e5", "u573a", "u666f">>,
      <<"u672a", "u77e5", "u7b79", "u5212", "u65b9", "u5f0f">>,
      <<"u9891", "u7387", "u672a", "u6307", "u5b9a">>, <<"u672a", "u77e5">> }

\* TargetTagCalculator._is_invalid_label; a NaN arrives as the text " NaN"
IsInvalidLabel(label) ==
    LET label_str == Lower(Strip(Str(label)))
    IN  label = PyNone \/ label_str \in InvalidValues \/ label_str = <<>>

\* sorted(items, key=lambda item: (-item[1], str(item[0])))
InsertByCountThenLabel(sorted, x) ==
    LET Ahead(y) == \/ y.score > x.score
                    \/ y.score = x.score /\ ~StrLess(Str(x.combo), Str(y.combo))
        ahead == Cardinality({i \in DOMAIN sorted : Ahead(sorted[i])})
    IN  Take(sorted, ahead) \o <<x>> \o Drop(sorted, ahead)

RECURSIVE SortByCountThenLabel(_)
SortByCountThenLabel(items) ==
    IF items = <<>> THEN <<>>
    ELSE InsertByCountThenLabel(SortByCountThenLabel(SubSeq(items, 1, Len(items) - 1)),
                                items[Len(items)])

\* the sentinel that stands for "only invalid labels"
NanEntry(key_name) == [k \in {key_name} |-> <<"N", "A", "N">>]

\* TargetTagCalculator._build_top_label_stats: <<total, list>>
BuildTopLabelStats(counter, key_name, n) ==
    LET total == CounterTotal(counter)
        Valid(item) == ~IsInvalidLabel(item.combo)
        Invalid(item) == IsInvalidLabel(item.combo)
        valid_items == SelectSeq(counter, Valid)
        invalid_items == SelectSeq(counter, Invalid)
        top_items == Take(SortByCountThenLabel(valid_items), n)
    IN  IF total = 0 THEN <<0, <<>>>>
        ELSE IF valid_items # <<>>
        THEN <<total,
               [i \in DOMAIN top_items |->
                   [k \in {key_name, "count", "percentage"} |->
                       CASE k = "count" -> top_items[i].score
                         [] k = "percentage" -> Percentage(top_items[i].score, total)
                         [] OTHER -> top_items[i].combo]]>>
        ELSE IF invalid_items # <<>> THEN <<total, <<NanEntry(key_name)>>>>
        ELSE <<total, <<>>>>

\* TargetTagCalculator._calculate_target_priority
CalculateTargetPriority(labels, n) ==
    BuildTopLabelStats(CountCombos(labels, <<>>), "target_priority_label", n)

\* target_top_n of the default configuration
DefaultTargetTopN == 50

\* distinct targets and missions per target of the larger mission logs
MaxPrefTargets == 6
MaxPrefCount == 2

\* the i-th target id, "T1", "T2", ...
PrefTargetId(i) == <<"T", <<"1", "2", "3", "4", "5", "6", "7", "8", "9">>[i]>>

\* a mission log with counts[i] missions on the i-th target
RECURSIVE GroupedMissions(_, _)
GroupedMissions(counts, i) ==
    IF i > Len(counts) THEN <<>>
    ELSE [j \in 1..counts[i] |-> PrefTargetId(i)] \o GroupedMissions(counts, i + 1)

\* PersonaTagCalculator._target_proportion_percentage
TargetProportionPercentage(target_counts, total, n) ==
    LET top == MostCommon(target_counts, n)
    IN  [i \in DOMAIN top |->
            [target_id |-> top[i].combo, count |-> top[i].score,
             percentage |-> Percentage(top[i].score, total)]]

\* zscore_threshold = 1.0 and tfidf_smoothing = 1.0 of the default
\* configuration, in tenths; bm25_k1 = 1.5 and bm25_b = 0.75 as fractions
ZscoreThresholdTenths == 10
TfidfSmoothingTenths == 10
Bm25K1 == [num |-> 3, den |-> 2]
Bm25B == [num |-> 3, den |-> 4]

\* users of the global statistics
MaxTagUsers == 6

\* math.log(n) for n = 1..16, in units of 1e-4
LnTable ==
    <<0, 6931, 10986, 13863, 16094, 17918, 19459, 20794,
      21972, 23026, 23979, 24849, 25649, 26391, 27081, 27726>>

\* math.log(num / den), in units of 1e-4
Log(num, den) == LnTable[num] - LnTable[den]

\* list.sort(key=score, reverse=True) on scores kept as fractions
\* score_num / score_den with score_den > 0; equal scores keep their order
InsertByFractionDesc(sorted, x) ==
    LET ahead == Cardinality({i \in DOMAIN sorted :
                     sorted[i].score_num * x.score_den >= x.score_num * sorted[i].score_den})
    IN  Take(sorted, ahead) \o <<x>> \o Drop(sorted, ahead)

RECURSIVE SortByFractionDesc(_)
SortByFractionDesc(seq) ==
    IF seq = <<>> THEN <<>>
    ELSE InsertByFractionDesc(SortByFractionDesc(SubSeq(seq, 1, Len(seq) - 1)),
                              seq[Len(seq)])

\* the output format shared by the four strategies
TargetEntry(target_id, count, total) ==
    [target_id |-> target_id, count |-> count, percentage |-> Percentage(count, total)]

\* Mutant of TargetProportionZscore: no fallback to the percentage strategy.
TargetProportionZscoreNoFallback(target_counts, total, n) ==
    LET k == Len(target_counts)
        S == CounterTotal(target_counts)
        Above(item) == k * item.score > S
        above == SortByScoreDesc(SelectSeq(target_counts, Above))
    IN  [i \in DOMAIN Take(above, n) |-> TargetEntry(above[i].combo, above[i].score, total)]

\* PersonaTagCalculator._target_proportion_zscore.  With k counts of sum S,
\* (count - mean) / std > t  iff  k*count > S and k * (k*count - S)^2 > t^2 * Q,
\* Q the sum of the (k*c - S)^2; std = 0 iff Q = 0.
TargetProportionZscore(target_counts, total, n) ==
    LET k == Len(target_counts)
        S == CounterTotal(target_counts)
        Dev(item) == k * item.score - S
        Q == CounterTotal([i \in DOMAIN target_counts |->
                              [score |-> Dev(target_counts[i]) * Dev(target_counts[i])]])
        Significant(item) ==
            /\ Dev(item) > 0
            /\ 100 * k * Dev(item) * Dev(item)
                   > ZscoreThresholdTenths * ZscoreThresholdTenths * Q
        significant_targets == SortByScoreDesc(SelectSeq(target_counts, Significant))
    IN  IF Q = 0 THEN TargetProportionPercentage(target_counts, total, n)
        ELSE IF significant_targets # <<>>
        THEN [i \in DOMAIN Take(significant_targets, n) |->
                 TargetEntry(significant_targets[i].combo, significant_targets[i].score,
                             total)]
        ELSE TargetProportionPercentage(target_counts, total, n)

\* global_stats['target_user_count'].get(target_id, 1)
UsersWithTarget(global_stats, target_id) ==
    IF target_id \in DOMAIN global_stats.target_user_count
    THEN global_stats.target_user_count[target_id] ELSE 1

\* Mutant of TargetProportionTfidf: the ranked list is not cut to Top-N.
TargetProportionTfidfUncut(target_counts, total, global_stats, n) ==
    [i \in DOMAIN target_counts |->
        TargetEntry(target_counts[i].combo, target_counts[i].score, total)]

\* PersonaTagCalculator._target_proportion_tfidf.  The score is
\* count / total * (log((total_users + 1) / (users_with_target + 1)) + smoothing);
\* total is the same for all targets of the list.
TargetProportionTfidf(target_counts, total, global_stats, n) ==
    LET Idf(t) == Log(global_stats.total_users + 1, UsersWithTarget(global_stats, t) + 1)
                      + TfidfSmoothingTenths * 1000
        tfidf_scores ==
            SortByFractionDesc(
                [i \in DOMAIN target_counts |->
                    [target_id |-> target_counts[i].combo,
                     count |-> target_counts[i].score,
                     score_num |-> target_counts[i].score * Idf(target_counts[i].combo),
                     score_den |-> total]])
    IN  [i \in DOMAIN Take(tfidf_scores, n) |->
            TargetEntry(tfidf_scores[i].target_id, tfidf_scores[i].count, total)]

\* PersonaTagCalculator._target_proportion_bm25.  The score is idf * tf_part,
\* idf = log((total_users - u + 0.5) / (u + 0.5) + 1) = log((2*total_users + 2) / (2u + 1)),
\* tf_part = count * (k1 + 1) / (count + k1 * (1 - b + b * total / avg_mission_count)).
\* With k1, b and avg_mission_count as fractions, tf_part is
\*   count * (k1.num + k1.den) * b.den * avg.num
\*   / (k1.den * b.den * avg.num * count
\*        + k1.num * ((b.den - b.num) * avg.num + b.num * total * avg.den)).
TargetProportionBm25(target_counts, total, global_stats, n) ==
    LET avg == global_stats.avg_mission_count
        Idf(t) == Log(2 * global_stats.total_users + 2,
                      2 * UsersWithTarget(global_stats, t) + 1)
        bm25_scores ==
            SortByFractionDesc(
                [i \in DOMAIN target_counts |->
                    [target_id |-> target_counts[i].combo,
                     count |-> target_counts[i].score,
                     score_num |-> Idf(target_counts[i].combo) * target_counts[i].score
                                       * (Bm25K1.num + Bm25K1.den) * Bm25B.den * avg.num,
                     score_den |-> Bm25K1.den * Bm25B.den * avg.num * target_counts[i].score
                                     + Bm25K1.num * ((Bm25B.den - Bm25B.num) * avg.num
                                                       + Bm25B.num * total * avg.den)]])
    IN  [i \in DOMAIN Take(bm25_scores, n) |->
            TargetEntry(bm25_scores[i].target_id, bm25_scores[i].count, total)]

\* PersonaTagCalculator._calculate_target_proportion, preference_algorithm
\* given explicitly
CalculateTargetProportion(missions, algorithm, global_stats, n) ==
    LET target_counts == CountCombos(missions, <<>>)
        total == Len(missions)
    IN  CASE algorithm = "percentage" -> TargetProportionPercentage(target_counts, total, n)
          [] algorithm = "tfidf" -> TargetProportionTfidf(target_counts, total, global_stats, n)
          [] algorithm = "bm25" -> TargetProportionBm25(target_counts, total, global_stats, n)
          [] algorithm = "zscore" -> TargetProportionZscore(target_counts, total, n)
          [] OTHER -> TargetProportionPercentage(target_counts, total, n)

\* global statistics: a target of the log is used by this user alone or by
\* all the users
TagGlobalStats ==
    UNION { { [total_users |-> u, target_user_count |-> c, avg_mission_count |-> a] :
                c \in [{PrefTargetId(i) : i \in 1..3} -> {1, u}],
                a \in {[num |-> 2, den |-> 1], [num |-> 3, den |-> 2]} } :
            u \in 1..MaxTagUsers }

\* per mission: its topic_id and the group names of its target's group_list
\* (empty when the target is unknown or has no group)
TopicGroupValues ==
    { [topic_id |-> t, group_list |-> g] :
        t \in {<<"P">>, <<"Q">>},
        g \in {<<>>, << <<"g">> >>, << <<"g">>, <<"h">> >>} }

\* the combos one mission adds to topic_group_counts
TopicGroupCombos(m) ==
    IF m.group_list # <<>>
    THEN [i \in DOMAIN m.group_list |-> m.topic_id \o <<"_">> \o m.group_list[i]]
    ELSE << m.topic_id \o <<"_", "u65e0", "u5206", "u7ec4">> >>

RECURSIVE AllTopicGroupCombos(_)
AllTopicGroupCombos(missions) ==
    IF missions = <<>> THEN <<>>
    ELSE TopicGroupCombos(Head(missions)) \o AllTopicGroupCombos(Tail(missions))

\* PersonaTagCalculator._calculate_topic_group: <<total, list>>
CalculateTopicGroup(missions, n) ==
    LET topic_group_counts == CountCombos(AllTopicGroupCombos(missions), <<>>)
        total == CounterTotal(topic_group_counts)
        top == MostCommon(topic_group_counts, n)
        Parts(combo) == SplitFirst(combo, <<>>)
    IN  IF total = 0 THEN <<0, <<>>>>
        ELSE <<total,
               [i \in DOMAIN top |->
                   [topic_id |-> Parts(top[i].combo)[1],
                    group_name |-> IF Len(Parts(top[i].combo)) > 1
                                   THEN Parts(top[i].combo)[2] ELSE <<>>,
                    count |-> top[i].score,
                    percentage |-> Percentage(top[i].score, total)]]>>

\* the label that stands for a missing plan type, u65e0 u7b79 u5212 u65b9 u5f0f
NoPlanType == <<"u65e0", "u7b79", "u5212", "u65b9", "u5f0f">>

\* plan types of a mission: None, '', two plain labels
PlanTypeValues == { PyNone, <<>>, <<"A">>, <<"B">> }

\* x or default
OrDefault(x, default) == IF x = PyNone \/ x = <<>> THEN default ELSE x

\* TargetTagCalculator._calculate_mission_plan_type
CalculateMissionPlanType(plan_types, n) ==
    BuildTopLabelStats(
        CountCombos([i \in DOMAIN plan_types |-> OrDefault(plan_types[i], NoPlanType)], <<>>),
        "mission_plan_type", n)

\* the defaults of the scenario key
UnknownTaskType == <<"u672a", "u77e5", "u7c7b", "u578b">>
UnknownScoutType == <<"u672a", "u77e5", "u4fa6", "u5bdf">>
UnknownTaskScene == <<"u672a", "u77e5", "u573a", "u666f">>

\* the scenario fields of a mission; is_precise is "True", "False" or "None"
ScenarioValues ==
    { [task_type |-> PyNone, scout_type |-> PyNone, task_scene |-> PyNone,
       is_precise |-> "None"],
      [task_type |-> <<"A">>, scout_type |-> PyNone, task_scene |-> PyNone,
       is_precise |-> "True"],
      [task_type |-> <<"A">>, scout_type |-> <<"B">>, task_scene |-> <<"A">>,
       is_precise |-> "True"],
      [task_type |-> <<"A">>, scout_type |-> <<"B">>, task_scene |-> <<"A">>,
       is_precise |-> "False"] }

\* scenario_key of a mission
ScenarioKey(m) ==
    [task_type |-> OrDefault(m.task_type, UnknownTaskType),
     scout_type |-> OrDefault(m.scout_type, UnknownScoutType),
     task_scene |-> OrDefault(m.task_scene, UnknownTaskScene),
     is_precise |-> (m.is_precise = "True")]

\* a < b on the scenario keys: tuples compare field by field, False < True
ScenarioKeyLess(a, b) ==
    IF a.task_type # b.task_type THEN StrLess(a.task_type, b.task_type)
    ELSE IF a.scout_type # b.scout_type THEN StrLess(a.scout_type, b.scout_type)
    ELSE IF a.task_scene # b.task_scene THEN StrLess(a.task_scene, b.task_scene)
    ELSE ~a.is_precise /\ b.is_precise

\* sorted(scenario_counter.items(), key=lambda item: (-item[1], item[0]))
InsertByCountThenKey(sorted, x) ==
    LET Ahead(y) == \/ y.score > x.score
                    \/ y.score = x.score /\ ~ScenarioKeyLess(x.combo, y.combo)
        ahead == Cardinality({i \in DOMAIN sorted : Ahead(sorted[i])})
    IN  Take(sorted, ahead) \o <<x>> \o Drop(sorted, ahead)

RECURSIVE SortByCountThenKey(_)
SortByCountThenKey(items) ==
    IF items = <<>> THEN <<>>
    ELSE InsertByCountThenKey(SortByCountThenKey(SubSeq(items, 1, Len(items) - 1)),
                              items[Len(items)])

\* TargetTagCalculator._calculate_scout_scenario: <<total, list>>
CalculateScoutScenario(missions, n) ==
    LET scenario_counter == CountCombos([i \in DOMAIN missions |-> ScenarioKey(missions[i])],
                                        <<>>)
        total == CounterTotal(scenario_counter)
        top_items == Take(SortByCountThenKey(scenario_counter), n)
    IN  IF total = 0 THEN <<0, <<>>>>
        ELSE <<total,
               [i \in DOMAIN top_items |->
                   [task_type |-> top_items[i].combo.task_type,
                    scout_type |-> top_items[i].combo.scout_type,
                    task_scene |-> top_items[i].combo.task_scene,
                    is_precise |-> top_items[i].combo.is_precise,
                    count |-> top_items[i].score,
                    percentage |-> Percentage(top_items[i].score, total)]]>>

\* mission lists as the values of the field a dimension reads
TagValueLists(values) ==
    UNION { [1..n -> values] : n \in 0..MaxTagMissions }

\* mission logs of the target proportion: short logs in any order, logs of
\* up to MaxPrefTargets targets grouped by target, and the log with the
\* counts 5, 3 and 2
ExampleLog == GroupedMissions(<<5, 3, 2>>, 1)

PrefMissionLists ==
    TagValueLists({PrefTargetId(i) : i \in 1..3})
    \cup {ExampleLog}
    \cup { GroupedMissions(c, 1) :
             c \in UNION { [1..k -> 1..MaxPrefCount] : k \in 1..MaxPrefTargets } }

TagIdle ==
    /\ tgpc = "idle"
    /\ tag_dimension = "none"
    /\ tag_values = <<>>
    /\ tag_top_n = 0
    /\ tag_cluster_map = <<>>
    /\ tag_algorithm = "none"
    /\ tag_global_stats = <<>>
    /\ tag_total = 0
    /\ tag_list = <<>>

TagFrame ==
    UNCHANGED <<hybridVars, matchVars, cfVars, remapVars, profileVars, personaVars,
                scoreVars,
          hhiVars,
          demandVars,
          resVars,
          countVars,
          initVars,
          entryVars,
          lookupVars,
          parVars,
          tuneVars,
          autoVars>>

\* generate_persona_tags / generate_profile_tags reach one dimension
TagCall ==
    /\ tgpc = "idle"
    /\ \/ /\ tag_dimension' = "preferred_region"
          /\ tag_values' \in TagValueLists(TagTargetIds)
          /\ tag_cluster_map' \in TagClusterMaps
          /\ tag_top_n' \in 1..MaxTagTopN
          /\ tag_algorithm' = "none"
          /\ tag_global_stats' = <<>>
       \/ /\ tag_dimension' = "target_priority"
          /\ tag_values' \in TagValueLists(TagLabelValues)
          /\ tag_cluster_map' = <<>>
          /\ tag_top_n' \in 1..MaxTagTopN
          /\ tag_algorithm' = "none"
          /\ tag_global_stats' = <<>>
       \/ /\ tag_dimension' = "preferred_targets"
          /\ tag_cluster_map' = <<>>
          /\ tag_top_n' \in (1..MaxTagTopN) \cup {DefaultTargetTopN}
          /\ \/ /\ tag_algorithm' \in {"percentage", "zscore"}
                /\ tag_values' \in PrefMissionLists
                /\ tag_global_stats' = <<>>
             \/ /\ tag_algorithm' \in {"tfidf", "bm25"}
                /\ tag_values' \in TagValueLists({PrefTargetId(i) : i \in 1..3})
                /\ tag_global_stats' \in TagGlobalStats
       \/ /\ tag_dimension' = "preferred_topic_group"
          /\ tag_values' \in TagValueLists(TopicGroupValues)
          /\ tag_cluster_map' = <<>>
          /\ tag_top_n' \in 1..MaxTagTopN
          /\ tag_algorithm' = "none"
          /\ tag_global_stats' = <<>>
       \/ /\ tag_dimension' = "mission_plan_type"
          /\ tag_values' \in TagValueLists(PlanTypeValues)
          /\ tag_cluster_map' = <<>>
          /\ tag_top_n' \in 1..MaxTagTopN
          /\ tag_algorithm' = "none"
          /\ tag_global_stats' = <<>>
       \/ /\ tag_dimension' = "preferred_scout_scenario"
          /\ tag_values' \in TagValueLists(ScenarioValues)
          /\ tag_cluster_map' = <<>>
          /\ tag_top_n' \in 1..MaxTagTopN
          /\ tag_algorithm' = "none"
          /\ tag_global_stats' = <<>>
    /\ tgpc' = "called"
    /\ tag_total' = 0
    /\ tag_list' = <<>>
    /\ TagFrame

TagRegionProportion ==
    /\ tgpc = "called"
    /\ tag_dimension = "preferred_region"
    /\ \E r \in {CalculateRegionProportion(tag_values, tag_cluster_map, tag_top_n)} :
          /\ tag_total' = r[1]
          /\ tag_list' = r[2]
    /\ tgpc' = "done"
    /\ UNCHANGED <<tag_dimension, tag_values, tag_top_n, tag_cluster_map,
                   tag_algorithm, tag_global_stats>>
    /\ TagFrame

TagTargetPriority ==
    /\ tgpc = "called"
    /\ tag_dimension = "target_priority"
    /\ \E r \in {CalculateTargetPriority(tag_values, tag_top_n)} :
          /\ tag_total' = r[1]
          /\ tag_list' = r[2]
    /\ tgpc' = "done"
    /\ UNCHANGED <<tag_dimension, tag_values, tag_top_n, tag_cluster_map,
                   tag_algorithm, tag_global_stats>>
    /\ TagFrame

TagTargetProportion ==
    /\ tgpc = "called"
    /\ tag_dimension = "preferred_targets"
    /\ tag_total' = Len(tag_values)
    /\ tag_list' = CalculateTargetProportion(tag_values, tag_algorithm, tag_global_stats,
                                             tag_top_n)
    /\ tgpc' = "done"
    /\ UNCHANGED <<tag_dimension, tag_values, tag_top_n, tag_cluster_map,
                   tag_algorithm, tag_global_stats>>
    /\ TagFrame

TagTopicGroup ==
    /\ tgpc = "called"
    /\ tag_dimension = "preferred_topic_group"
    /\ \E r \in {CalculateTopicGroup(tag_values, tag_top_n)} :
          /\ tag_total' = r[1]
          /\ tag_list' = r[2]
    /\ tgpc' = "done"
    /\ UNCHANGED <<tag_dimension, tag_values, tag_top_n, tag_cluster_map,
                   tag_algorithm, tag_global_stats>>
    /\ TagFrame

TagMissionPlanType ==
    /\ tgpc = "called"
    /\ tag_dimension = "mission_plan_type"
    /\ \E r \in {CalculateMissionPlanType(tag_values, tag_top_n)} :
          /\ tag_total' = r[1]
          /\ tag_list' = r[2]
    /\ tgpc' = "done"
    /\ UNCHANGED <<tag_dimension, tag_values, tag_top_n, tag_cluster_map,
                   tag_algorithm, tag_global_stats>>
    /\ TagFrame

TagScoutScenario ==
    /\ tgpc = "called"
    /\ tag_dimension = "preferred_scout_scenario"
    /\ \E r \in {CalculateScoutScenario(tag_values, tag_top_n)} :
          /\ tag_total' = r[1]
          /\ tag_list' = r[2]
    /\ tgpc' = "done"
    /\ UNCHANGED <<tag_dimension, tag_values, tag_top_n, tag_cluster_map,
                   tag_algorithm, tag_global_stats>>
    /\ TagFrame

TagReturn ==
    /\ tgpc = "done"
    /\ tgpc' = "idle"
    /\ tag_dimension' = "none"
    /\ tag_values' = <<>>
    /\ tag_top_n' = 0
    /\ tag_cluster_map' = <<>>
    /\ tag_algorithm' = "none"
    /\ tag_global_stats' = <<>>
    /\ tag_total' = 0
    /\ tag_list' = <<>>
    /\ TagFrame

TagNext ==
    \/ TagCall
    \/ TagRegionProportion
    \/ TagTargetPriority
    \/ TagTargetProportion
    \/ TagTopicGroup
    \/ TagMissionPlanType
    \/ TagScoutScenario
    \/ TagReturn

\* entries that carry a count (the NAN sentinel carries none)
Counted(list) ==
    LET HasCount(e) == "count" \in DOMAIN e IN SelectSeq(list, HasCount)

\* the label of an entry: its cluster id, its combo, or the text under its key
EntryLabel(e) ==
    IF "topic_id" \in DOMAIN e THEN e.topic_id \o <<"_">> \o e.group_name
    ELSE e[CHOOSE k \in DOMAIN e : k \notin {"count", "percentage"}]

LabelBefore(a, b) ==
    IF "cluster_id" \in DOMAIN a THEN a.cluster_id <= b.cluster_id
    ELSE IF "task_type" \in DOMAIN a THEN ~ScenarioKeyLess(b, a)
    ELSE ~StrLess(Str(EntryLabel(b)), Str(EntryLabel(a)))

\* C11: in every ranked tag list the counts do not increase along the list
\* and entries of equal count stand in lexicographic label order.
C11_RankedByCountThenLabel ==
    tgpc = "done" =>
        \A i, j \in DOMAIN Counted(tag_list) :
            i < j =>
                \/ Counted(tag_list)[i].count > Counted(tag_list)[j].count
                \/ /\ Counted(tag_list)[i].count = Counted(tag_list)[j].count
                   /\ LabelBefore(Counted(tag_list)[i], Counted(tag_list)[j])

RECURSIVE SumField(_, _)
SumField(list, field) ==
    IF list = <<>> THEN 0 ELSE Head(list)[field] + SumField(Tail(list), field)

\* C12 as stated: the counts of a Top-N list add up to the total of its
\* dimension and its percentages add up to at most 100.01.
C12_CountsAddUpToTotal ==
    (tgpc = "done" /\ Counted(tag_list) # <<>>) =>
        /\ SumField(Counted(tag_list), "count") = tag_total
        /\ SumField(Counted(tag_list), "percentage") <= 10001

\* C12, amended: the counts of a Top-N list add up to at most the total of
\* its dimension, and its percentages add up to at most 100 plus 0.005 per
\* entry.
C12_CountsWithinTotal ==
    (tgpc = "done" /\ Counted(tag_list) # <<>>) =>
        /\ SumField(Counted(tag_list), "count") <= tag_total
        /\ 2 * SumField(Counted(tag_list), "percentage") <= 20000 + Len(tag_list)

\* a list cut off by Top-N: its counts stay below the total
C12_Witness ==
    /\ tgpc = "done"
    /\ tag_dimension = "preferred_targets"
    /\ Len(tag_list) = tag_top_n
    /\ SumField(tag_list, "count") < tag_total

\* six targets of one mission each: 6 * 16.67 = 100.02
C12_WitnessPercentages ==
    /\ tgpc = "done"
    /\ SumField(Counted(tag_list), "percentage") > 10001

\* the raw counts of the targets of the log
RawCount(target_id) ==
    Cardinality({i \in DOMAIN tag_values : tag_values[i] = target_id})

LogTargets == SeqRange(tag_values)

DevScaled(t) == Cardinality(LogTargets) * RawCount(t) - Len(tag_values)

RECURSIVE SumSquaredDev(_)
SumSquaredDev(set) ==
    IF set = {} THEN 0
    ELSE LET t == CHOOSE y \in set : TRUE
         IN  DevScaled(t) * DevScaled(t) + SumSquaredDev(set \ {t})

VarianceScaled == SumSquaredDev(LogTargets)

\* z-score of target t above zscore_threshold = 1.0
ExceedsThreshold(t) ==
    /\ DevScaled(t) > 0
    /\ Cardinality(LogTargets) * DevScaled(t) * DevScaled(t) > VarianceScaled

\* C14: with at least one mission, when the counts have standard deviation
\* zero or no target's z-score exceeds the threshold, the z-score strategy
\* returns the non-empty list the percentage strategy returns.
C14_ZscoreDegradesToPercentage ==
    (/\ tgpc = "done"
     /\ tag_dimension = "preferred_targets"
     /\ tag_algorithm = "zscore"
     /\ tag_values # <<>>
     /\ \/ VarianceScaled = 0
        \/ \A t \in LogTargets : ~ExceedsThreshold(t)) =>
        /\ tag_list # <<>>
        /\ tag_list = CalculateTargetProportion(tag_values, "percentage", <<>>, tag_top_n)

\* counts that differ, none of them more than one standard deviation above
\* the mean
C14_Witness ==
    /\ tgpc = "done"
    /\ tag_dimension = "preferred_targets"
    /\ tag_algorithm = "zscore"
    /\ VarianceScaled > 0
    /\ \A t \in LogTargets : ~ExceedsThreshold(t)
    /\ tag_list # <<>>

\* the target-side dimensions of the model
TargetSideDimensions == {"target_priority", "mission_plan_type", "preferred_scout_scenario"}

\* a mission whose label in the dimension is null, NaN or an unknown sentinel
CarriesInvalidLabel(v) ==
    IF tag_dimension = "preferred_scout_scenario"
    THEN IsInvalidLabel(v.task_type) /\ IsInvalidLabel(v.scout_type)
            /\ IsInvalidLabel(v.task_scene)
    ELSE IsInvalidLabel(v)

\* C16: in a target-side dimension the missions with an invalid label are
\* not counted in the ranked list, and when every mission of the target has
\* an invalid label the list is exactly one sentinel entry without count
\* and percentage.
C16_InvalidLabelsLeftOut ==
    (tgpc = "done" /\ tag_dimension \in TargetSideDimensions /\ tag_values # <<>>) =>
        LET valid == {i \in DOMAIN tag_values : ~CarriesInvalidLabel(tag_values[i])}
        IN  /\ SumField(Counted(tag_list), "count") <= Cardinality(valid)
            /\ valid = {} =>
                  /\ Len(tag_list) = 1
                  /\ DOMAIN tag_list[1] \cap {"count", "percentage"} = {}

\* the example of C13 has run
C13_Example ==
    /\ tgpc = "done"
    /\ tag_values = ExampleLog
    /\ tag_algorithm = "percentage"
    /\ tag_top_n = 2

(***************************************************************************)
(* Concentration index of a requester's target counts.                     *)
(* persona_tag_calculator.py, _calculate_concentration_index               *)
(***************************************************************************)

\* targets of a requester and missions per target
MaxHhiTargets == 3
MaxHhiCount == 3

\* hhi_threshold of the default configuration, in hundredths
HhiThresholdHundredths == 5

\* a requester with nearly all of 40000 missions on one target
NearlyAllOnOne == <<39999, 1>>

\* the lists of counts handed to _calculate_concentration_index
CountLists ==
    UNION { [1..k -> 0..MaxHhiCount] : k \in 0..MaxHhiTargets } \cup {NearlyAllOnOne}

RECURSIVE SumSeq(_)
SumSeq(seq) == IF seq = <<>> THEN 0 ELSE Head(seq) + SumSeq(Tail(seq))

\* sum of the squared counts: total^2 * sum(p ** 2 for p in proportions)
SumOfSquares(seq) == SumSeq([i \in DOMAIN seq |-> seq[i] * seq[i]])

\* Mutant of CalculateConcentrationIndex: the shares are summed unsquared.
CalculateConcentrationIndexOfShares(seq) ==
    IF seq = <<>> \/ SumSeq(seq) = 0
    THEN [hhi |-> 0, concentration_level |-> <<"u672a", "u77e5">>,
          is_concentrated |-> FALSE]
    ELSE [hhi |-> RoundHalfEven(SumSeq(seq) * 10000, SumSeq(seq)),
          concentration_level |-> <<"u96c6", "u4e2d">>, is_concentrated |-> TRUE]

\* _calculate_concentration_index.  hhi = S/total^2 with S the sum of the
\* squared counts; round(hhi, 4) is 1 - round((total^2 - S) / total^2, 4),
\* in units of 1e-4; hhi > hhi_threshold is taken on the unrounded value:
\* 100 * S > threshold * total^2, written with the quotient and remainder of
\* total^2 by 100.  (In floating point the comparison can differ when the
\* two sides are equal, which takes at least 20 targets.)
CalculateConcentrationIndex(seq) ==
    LET total == SumSeq(seq)
        is_concentrated ==
            SumOfSquares(seq) > HhiThresholdHundredths * ((total * total) \div 100)
                                  + (HhiThresholdHundredths * ((total * total) % 100)) \div 100
    IN  IF seq = <<>> \/ total = 0
        THEN [hhi |-> 0, concentration_level |-> <<"u672a", "u77e5">>,
              is_concentrated |-> FALSE]
        ELSE [hhi |-> 10000 - RoundHalfEven((total * total - SumOfSquares(seq)) * 10000,
                                            total * total),
              concentration_level |-> IF is_concentrated THEN <<"u96c6", "u4e2d">>
                                      ELSE <<"u5206", "u6563">>,
              is_concentrated |-> is_concentrated]

HhiIdle ==
    /\ xpc = "idle"
    /\ hhi_counts = <<>>
    /\ concentration = <<>>

HhiFrame ==
    UNCHANGED <<hybridVars, matchVars, cfVars, remapVars, profileVars, personaVars,
                scoreVars, tagVars,
          demandVars,
          resVars,
          countVars,
          initVars,
          entryVars,
          lookupVars,
          parVars,
          tuneVars,
          autoVars>>

\* _calculate_target_proportion hands the counts of a requester over
HhiCall ==
    /\ xpc = "idle"
    /\ hhi_counts' \in CountLists
    /\ concentration' = <<>>
    /\ xpc' = "called"
    /\ HhiFrame

HhiReturn ==
    /\ xpc = "called"
    /\ concentration' = CalculateConcentrationIndex(hhi_counts)
    /\ xpc' = "done"
    /\ UNCHANGED hhi_counts
    /\ HhiFrame

HhiReset ==
    /\ xpc = "done"
    /\ xpc' = "idle"
    /\ hhi_counts' = <<>>
    /\ concentration' = <<>>
    /\ HhiFrame

HhiNext ==
    \/ HhiCall
    \/ HhiReturn
    \/ HhiReset

\* a single target holds all of the missions
SingleTargetHoldsAll ==
    /\ SumSeq(hhi_counts) > 0
    /\ \E i \in DOMAIN hhi_counts : hhi_counts[i] = SumSeq(hhi_counts)

\* C15 as stated: the HHI returned lies in [0,1] and is 1 exactly when a
\* single target holds all of the missions.
C15_HhiOneIffSingleTarget ==
    xpc = "done" =>
        /\ concentration.hhi >= 0
        /\ concentration.hhi <= 10000
        /\ (concentration.hhi = 10000) <=> SingleTargetHoldsAll

\* C15, amended: the HHI returned, rounded to four decimals, lies in [0,1];
\* it is 1 when a single target holds all of the missions, and when it is 1
\* the sum of the squared shares is at least 0.99995.
C15_HhiOneUpToRounding ==
    xpc = "done" =>
        /\ concentration.hhi >= 0
        /\ concentration.hhi <= 10000
        /\ SingleTargetHoldsAll => concentration.hhi = 10000
        /\ (concentration.hhi = 10000) =>
              /\ SumSeq(hhi_counts) > 0
              /\ SumSeq(hhi_counts) * SumSeq(hhi_counts) - SumOfSquares(hhi_counts)
                    <= (SumSeq(hhi_counts) * SumSeq(hhi_counts)) \div 20000

\* two targets, and an HHI of 1 after rounding
C15_Witness ==
    /\ xpc = "done"
    /\ ~SingleTargetHoldsAll
    /\ concentration.hhi = 10000

(***************************************************************************)
(* Recommendation demands of one target.                                   *)
(* recommendation_demand_algorithm.py, utils/frequency_utils.py            *)
(* Weights and label percentages are whole percents here (1.0 = 100).      *)
(***************************************************************************)

\* largest top_n of a run (the default is 3)
MaxDemandTopN == 3

\* the sentinel of _build_top_label_stats, and "frequency unspecified"
\* (u9891 u7387 u672a u6307 u5b9a)
NanText == <<"N", "A", "N">>
FrequencyUnspecified == <<"u9891", "u7387", "u672a", "u6307", "u5b9a">>

\* _build_cycle_label: the normalised cycle text, the count and u6b21,
\* joined without a separator
BuildCycleLabel(normalized, cycle_count) == normalized \o cycle_count \o <<"u6b21">>

\* _build_req_times_label: u5468 u671f u9891 u6b21 u4e3a and the count
BuildReqTimesLabel(req_times_val) ==
    <<"u5468", "u671f", "u9891", "u6b21", "u4e3a">> \o req_times_val

\* scout_cycle_label lists of a profile: none, the sentinel, labels as
\* _build_cycle_label writes them, and labels of the form "cycle,times"
CycleLabelLists ==
    { <<>>,
      << [cycle_label |-> NanText] >>,
      << [cycle_label |-> BuildCycleLabel(<<"1", "u6708">>, <<"3">>),
          count |-> 2, percentage |-> 100] >>,
      << [cycle_label |-> <<"1", "u6708", ",", "3">>, count |-> 1, percentage |-> 25] >>,
      << [cycle_label |-> <<"1", "u6708", ",", "3">>, count |-> 1, percentage |-> 50],
         [cycle_label |-> <<"2", "u5468", ",", " ", "3">>, count |-> 1, percentage |-> 50] >> }

\* scout_frequency_label lists of a profile
FrequencyLabelLists ==
    { <<>>,
      << [req_times |-> NanText] >>,
      << [req_times |-> BuildReqTimesLabel(<<"2">>), count |-> 1, percentage |-> 50] >>,
      << [req_times |-> BuildReqTimesLabel(<<"2">>), count |-> 2, percentage |-> 50],
         [req_times |-> BuildReqTimesLabel(<<"1">>), count |-> 1, percentage |-> 25] >> }

\* target_priority_label lists of a profile
PriorityLabelLists ==
    { <<>>,
      << [target_priority_label |-> NanText] >>,
      << [target_priority_label |-> <<"1">>, count |-> 5, percentage |-> 50],
         [target_priority_label |-> <<"2">>, count |-> 3, percentage |-> 30],
         [target_priority_label |-> <<"3">>, count |-> 2, percentage |-> 20] >>,
      << [target_priority_label |-> <<"1">>, count |-> 1, percentage |-> 10],
         [target_priority_label |-> <<"2">>, count |-> 2, percentage |-> 20],
         [target_priority_label |-> <<"3">>, count |-> 3, percentage |-> 30],
         [target_priority_label |-> <<"4">>, count |-> 4, percentage |-> 40] >> }

\* the profile tags of the model: the scenario, type, resolution and
\* plan-type labels are absent
DemandProfileTags ==
    [scout_cycle_label : CycleLabelLists,
     scout_frequency_label : FrequencyLabelLists,
     target_priority_label : PriorityLabelLists]

\* str.split(',')
RECURSIVE SplitComma(_, _)
SplitComma(text, current) ==
    IF text = <<>> THEN <<current>>
    ELSE IF Head(text) = "," THEN <<current>> \o SplitComma(Tail(text), <<>>)
    ELSE SplitComma(Tail(text), Append(current, Head(text)))

\* the value of a text of digits
Digits == <<"0", "1", "2", "3", "4", "5", "6", "7", "8", "9">>

DigitValue(c) == (CHOOSE i \in DOMAIN Digits : Digits[i] = c) - 1

RECURSIVE DigitsValue(_, _)
DigitsValue(text, acc) ==
    IF text = <<>> THEN acc ELSE DigitsValue(Tail(text), 10 * acc + DigitValue(Head(text)))

\* int(float(text)) if text is a number else 1 (texts without '.' and '-')
CycleTimesValue(text) ==
    IF text # <<>> /\ \A i \in DOMAIN text : text[i] \in SeqRange(Digits)
    THEN DigitsValue(text, 0) ELSE 1

\* the tests that let a label count as valid
ValidCycleLabel(label) ==
    /\ label.cycle_label # <<>>
    /\ label.cycle_label # NanText
    /\ Strip(label.cycle_label) # <<>>

ValidFrequencyLabel(label) ==
    /\ label.req_times # PyNone
    /\ Strip(label.req_times) # <<>>
    /\ label.req_times # FrequencyUnspecified

\* sum(l.get('count', default) for l in labels)
RECURSIVE TotalCount(_, _)
TotalCount(labels, default) ==
    IF labels = <<>> THEN 0
    ELSE DictGet(Head(labels), "count", default) + TotalCount(Tail(labels), default)

\* label.get('percentage', 0), replaced by the share of the count when it is 0
PercentageOrShare(label, labels, default_count, default_share) ==
    IF DictGet(label, "percentage", 0) # 0 THEN label.percentage
    ELSE IF TotalCount(labels, default_count) > 0
         THEN (DictGet(label, "count", default_count) * 100)
                  \div TotalCount(labels, default_count)
         ELSE default_share

\* cycle_valid_percentage and frequency_valid_percentage
RECURSIVE CycleValidPercentage(_, _)
CycleValidPercentage(labels, all) ==
    IF labels = <<>> THEN 0
    ELSE (IF ValidCycleLabel(Head(labels))
          THEN PercentageOrShare(Head(labels), all, 0, 0) ELSE 0)
         + CycleValidPercentage(Tail(labels), all)

RECURSIVE FrequencyValidPercentage(_, _)
FrequencyValidPercentage(labels, all) ==
    IF labels = <<>> THEN 0
    ELSE (IF ValidFrequencyLabel(Head(labels))
          THEN PercentageOrShare(Head(labels), all, 0, 0) ELSE 0)
         + FrequencyValidPercentage(Tail(labels), all)

\* defaultdict(float): weights[value] += percentage, in first-seen order
AddWeight(weights, value, percentage) ==
    IF \E i \in DOMAIN weights : weights[i].value = value
    THEN [i \in DOMAIN weights |->
             IF weights[i].value = value
             THEN [weights[i] EXCEPT !.weight = @ + percentage] ELSE weights[i]]
    ELSE Append(weights, [value |-> value, weight |-> percentage])

\* the loop over cycle_labels: the weights of reqCycle and reqCycleTimes
RECURSIVE CycleWeights(_, _, _)
CycleWeights(labels, all, acc) ==
    IF labels = <<>> THEN acc
    ELSE LET label == Head(labels)
             parts == SplitComma(label.cycle_label, <<>>)
             percentage == PercentageOrShare(label, all, 1, 100)
         IN  IF ValidCycleLabel(label) /\ Len(parts) = 2
             THEN CycleWeights(Tail(labels), all,
                      [req_cycle_weights |->
                           AddWeight(acc.req_cycle_weights, Strip(parts[1]), percentage),
                       req_cycle_times_weights |->
                           AddWeight(acc.req_cycle_times_weights, Strip(parts[2]), percentage),
                       cycle_has_valid_data |-> TRUE])
             ELSE CycleWeights(Tail(labels), all, acc)

\* independent_fields[name].append(item); the fields keep their first-use order
AppendItem(fields, name, item) ==
    IF \E i \in DOMAIN fields : fields[i].name = name
    THEN [i \in DOMAIN fields |->
             IF fields[i].name = name
             THEN [fields[i] EXCEPT !.items = Append(@, item)] ELSE fields[i]]
    ELSE Append(fields, [name |-> name, items |-> <<item>>])

RECURSIVE AppendItems(_, _, _)
AppendItems(fields, name, items) ==
    IF items = <<>> THEN fields
    ELSE AppendItems(AppendItem(fields, name, Head(items)), name, Tail(items))

\* {'value': None, 'weight': 1.0}: an item without value
NoneItem == [weight |-> 100]

\* if name in independent_fields: independent_fields[name] = [];
\* independent_fields[name].append(item)
SetOnly(fields, name, item) ==
    AppendItem([i \in DOMAIN fields |->
                   IF fields[i].name = name THEN [fields[i] EXCEPT !.items = <<>>]
                   ELSE fields[i]],
               name, item)

SetNone(fields, name) == SetOnly(fields, name, NoneItem)

\* min(weight, 1.0) on every item
CapWeights(weights) ==
    [i \in DOMAIN weights |-> [weights[i] EXCEPT !.weight = Min2(@, 100)]]

\* the default values: u9646 u4e0a u6001 u52bf - u76ee u6807 u6838 u67e5,
\* the resolution in full-width brackets, u5176 u4ed6
DefaultTaskScene ==
    <<"1", "u9646", "u4e0a", "u6001", "u52bf", "-", "u76ee", "u6807", "u6838", "u67e5">>
DefaultResolution == <<"uff08", "0", ".", "5", "-", "1", ".", "0", "uff09">>
DefaultTargetCategory == <<"u5176", "u4ed6">>

\* part 1 of _extract_independent_fields_with_weights without scenario labels
ScenarioDefaults ==
    << [name |-> "taskType", items |-> << [value |-> <<"5">>, weight |-> 100] >>],
       [name |-> "scoutType",
        items |-> << [value |-> <<"L", "D", "C", "X", "M", "B">>, weight |-> 100] >>],
       [name |-> "taskScene", items |-> << [value |-> DefaultTaskScene, weight |-> 100] >>],
       [name |-> "isPrecise", items |-> << [value |-> FALSE, weight |-> 100] >>] >>

\* part 2: the cycle form against the frequency form
TimingFields(fields, cycle_labels, frequency_labels) ==
    LET use_cycle_type ==
            CycleValidPercentage(cycle_labels, cycle_labels)
                >= FrequencyValidPercentage(frequency_labels, frequency_labels)
        cycle == CycleWeights(cycle_labels, cycle_labels,
                              [req_cycle_weights |-> <<>>, req_cycle_times_weights |-> <<>>,
                               cycle_has_valid_data |-> FALSE])
        cycle_has_valid_data == cycle.cycle_has_valid_data
        req_cycle_times_items ==
            [i \in DOMAIN cycle.req_cycle_times_weights |->
                [value |-> CycleTimesValue(cycle.req_cycle_times_weights[i].value),
                 weight |-> Min2(cycle.req_cycle_times_weights[i].weight, 100)]]
        with_cycle ==
            IF cycle_has_valid_data
            THEN AppendItems(AppendItems(fields, "reqCycle", CapWeights(cycle.req_cycle_weights)),
                             "reqCycleTimes", req_cycle_times_items)
            ELSE fields
        valid_frequency == SelectSeq(frequency_labels, ValidFrequencyLabel)
        frequency_has_valid_data == valid_frequency # <<>>
        with_frequency ==
            AppendItems(with_cycle, "reqTimes",
                        [i \in DOMAIN valid_frequency |->
                            [value |-> valid_frequency[i].req_times,
                             weight |-> DictGet(valid_frequency[i], "percentage", 0)]])
        KeepCycle == SetNone(with_frequency, "reqTimes")
        KeepFrequency == SetNone(SetNone(with_frequency, "reqCycle"), "reqCycleTimes")
    IN  IF use_cycle_type /\ cycle_has_valid_data THEN KeepCycle
        ELSE IF ~use_cycle_type /\ frequency_has_valid_data THEN KeepFrequency
        ELSE IF cycle_has_valid_data THEN KeepCycle
        ELSE IF frequency_has_valid_data THEN KeepFrequency
        ELSE SetOnly(SetNone(SetNone(with_frequency, "reqCycle"), "reqCycleTimes"),
                     "reqTimes", [value |-> <<"1">>, weight |-> 100])

\* parts 3 and 4 without type, resolution and plan-type labels
PriorityFields(fields, priority_labels) ==
    IF priority_labels # <<>>
    THEN AppendItems(fields, "targetPriority",
             [i \in DOMAIN priority_labels |->
                 [value |-> priority_labels[i].target_priority_label,
                  weight |-> DictGet(priority_labels[i], "percentage", 0)]])
    ELSE AppendItem(fields, "targetPriority",
                    [value |-> <<"1", ".", "0">>, weight |-> 100])

DefaultFields(fields) ==
    LET with_resolution ==
            AppendItem(fields, "resolution", [value |-> DefaultResolution, weight |-> 100])
        with_plan_type ==
            AppendItem(with_resolution, "missionPlanType", [value |-> 2, weight |-> 100])
        with_type ==
            AppendItem(with_plan_type, "targetType",
                       [value |-> <<"P", "O", "I", "N", "T">>, weight |-> 100])
    IN  AppendItem(with_type, "targetCategory",
                   [value |-> DefaultTargetCategory, weight |-> 100])

\* _extract_independent_fields_with_weights
ExtractIndependentFieldsWithWeights(tags) ==
    DefaultFields(
        PriorityFields(
            TimingFields(ScenarioDefaults, tags.scout_cycle_label, tags.scout_frequency_label),
            tags.target_priority_label))

\* sorted(field_list, key=weight, reverse=True): stable, ties keep their order
InsertByWeightDesc(sorted, x) ==
    LET ahead == Cardinality({i \in DOMAIN sorted : sorted[i].weight >= x.weight})
    IN  Take(sorted, ahead) \o <<x>> \o Drop(sorted, ahead)

RECURSIVE SortByWeightDesc(_)
SortByWeightDesc(seq) ==
    IF seq = <<>> THEN <<>>
    ELSE InsertByWeightDesc(SortByWeightDesc(SubSeq(seq, 1, Len(seq) - 1)), seq[Len(seq)])

\* the options kept of every field
FieldOptions == 3

\* optimized_fields[field_name] = sorted_fields[:3]
OptimizedFieldsUnsorted(fields) ==
    [i \in DOMAIN fields |->
        [name |-> fields[i].name, items |-> Take(fields[i].items, FieldOptions)]]

OptimizedFields(fields) ==
    [i \in DOMAIN fields |->
        [name |-> fields[i].name,
         items |-> Take(SortByWeightDesc(fields[i].items), FieldOptions)]]

\* itertools.product: the last field varies fastest
RECURSIVE Product(_)
Product(fields) ==
    IF fields = <<>> THEN << <<>> >>
    ELSE LET rest == Product(Tail(fields))
             items == Head(fields).items
             RECURSIVE Rows(_)
             Rows(k) == IF k > Len(items) THEN <<>>
                        ELSE [j \in DOMAIN rest |-> <<items[k]>> \o rest[j]] \o Rows(k + 1)
         IN  Rows(1)

\* The score of a combination is the product of its weights.  Fields all of
\* whose options weigh 1.0 multiply by one; the others give one factor each,
\* so that the scores of one call are whole numbers of one unit.
WeightedFields(fields) ==
    {i \in DOMAIN fields : \E k \in DOMAIN fields[i].items : fields[i].items[k].weight # 100}

RECURSIVE ScoreUnit(_)
ScoreUnit(weighted) ==
    IF weighted = {} THEN 1
    ELSE LET i == CHOOSE i \in weighted : TRUE IN 100 * ScoreUnit(weighted \ {i})

RECURSIVE WeightProduct(_, _)
WeightProduct(combo, weighted) ==
    IF weighted = {} THEN 1
    ELSE LET i == CHOOSE i \in weighted : TRUE
         IN  combo[i].weight * WeightProduct(combo, weighted \ {i})

\* values[field_name] = field_item.get('value'); a None value has no key
ComboValues(fields, combo) ==
    LET present == {i \in DOMAIN fields : "value" \in DOMAIN combo[i]}
        Index(n) == CHOOSE i \in present : fields[i].name = n
    IN  [n \in {fields[i].name : i \in present} |-> combo[Index(n)].value]

\* _calculate_field_combinations
CalculateFieldCombinations(fields) ==
    LET optimized_fields == OptimizedFields(fields)
        product == Product(optimized_fields)
        weighted == WeightedFields(optimized_fields)
    IN  [c \in DOMAIN product |->
            [values |-> ComboValues(optimized_fields, product[c]),
             score |-> WeightProduct(product[c], weighted),
             score_unit |-> ScoreUnit(weighted)]]

\* str(False) and str(True)
BoolText(b) == IF b THEN <<"T", "r", "u", "e">> ELSE <<"F", "a", "l", "s", "e">>

\* _build_recommendation_demand: the fields taken from the combination and
\* the score; the fixed message fields and the clock times are left out.
\* A key of field_values whose value is None is absent from values.
BuildRecommendationDemand(target_id, field_values, score, score_unit) ==
    LET use_cycle == "reqCycle" \in DOMAIN field_values
                     /\ "reqCycleTimes" \in DOMAIN field_values
        use_frequency == "reqTimes" \in DOMAIN field_values
        timing ==
            IF use_cycle
            THEN [reqCycle |-> field_values.reqCycle,
                  reqCycleTimes |-> field_values.reqCycleTimes]
            ELSE IF use_frequency THEN [reqTimes |-> field_values.reqTimes]
            ELSE [reqTimes |-> <<"1">>]
    IN  [targetId |-> target_id,
         targetPriority |-> DictGet(field_values, "targetPriority", <<"1", ".", "0">>),
         taskType |-> DictGet(field_values, "taskType", <<"5">>),
         scoutType |-> DictGet(field_values, "scoutType", <<"L", "D", "C", "X", "M", "B">>),
         taskScene |-> DictGet(field_values, "taskScene", DefaultTaskScene),
         isPrecise |-> BoolText(DictGet(field_values, "isPrecise", FALSE)),
         resolution |-> DictGet(field_values, "resolution", DefaultResolution),
         targetType |-> DictGet(field_values, "targetType", <<"P", "O", "I", "N", "T">>),
         targetCategory |-> DictGet(field_values, "targetCategory", DefaultTargetCategory),
         missionPlanType |-> DictGet(field_values, "missionPlanType", 2),
         weight_score |-> score,
         weight_unit |-> score_unit] @@ timing

\* sorted(combinations, key=score, reverse=True)[:top_n]
TopCombinations(combos, n) == Take(SortByScoreDesc(combos), n)

DemandIdle ==
    /\ dpc = "idle"
    /\ demand_profile_tags = [scout_cycle_label |-> <<>>, scout_frequency_label |-> <<>>,
                              target_priority_label |-> <<>>]
    /\ demand_top_n = 3
    /\ independent_fields = <<>>
    /\ combinations = <<>>
    /\ demands = <<>>

DemandFrame ==
    UNCHANGED <<hybridVars, matchVars, cfVars, remapVars, profileVars, personaVars,
                scoreVars, tagVars, hhiVars,
          resVars,
          countVars,
          initVars,
          entryVars,
          lookupVars,
          parVars,
          tuneVars,
          autoVars>>

\* _generate_recommendations_for_target(target_id, profile_tags, top_n)
DemandCall ==
    /\ dpc = "idle"
    /\ \E tags \in DemandProfileTags, n \in 1..MaxDemandTopN :
          /\ demand_profile_tags' = tags
          /\ demand_top_n' = n
    /\ dpc' = "extract"
    /\ UNCHANGED <<independent_fields, combinations, demands>>
    /\ DemandFrame

DemandExtract ==
    /\ dpc = "extract"
    /\ independent_fields' = ExtractIndependentFieldsWithWeights(demand_profile_tags)
    /\ dpc' = "combine"
    /\ UNCHANGED <<demand_profile_tags, demand_top_n, combinations, demands>>
    /\ DemandFrame

DemandCombine ==
    /\ dpc = "combine"
    /\ combinations' = CalculateFieldCombinations(independent_fields)
    /\ dpc' = "build"
    /\ UNCHANGED <<demand_profile_tags, demand_top_n, independent_fields, demands>>
    /\ DemandFrame

DemandBuild ==
    /\ dpc = "build"
    /\ \E top \in {TopCombinations(combinations, demand_top_n)} :
          demands' = [i \in DOMAIN top |->
                         BuildRecommendationDemand("T1", top[i].values, top[i].score,
                                                   top[i].score_unit)]
    /\ dpc' = "done"
    /\ UNCHANGED <<demand_profile_tags, demand_top_n, independent_fields, combinations>>
    /\ DemandFrame

DemandReturn ==
    /\ dpc = "done"
    /\ dpc' = "idle"
    /\ demand_profile_tags' = [scout_cycle_label |-> <<>>, scout_frequency_label |-> <<>>,
                               target_priority_label |-> <<>>]
    /\ demand_top_n' = 3
    /\ independent_fields' = <<>>
    /\ combinations' = <<>>
    /\ demands' = <<>>
    /\ DemandFrame

DemandNext ==
    \/ DemandCall
    \/ DemandExtract
    \/ DemandCombine
    \/ DemandBuild
    \/ DemandReturn

\* the cumulative percentage of the labels of a dimension that are not the
\* sentinel
RECURSIVE NonSentinelPercentage(_, _)
NonSentinelPercentage(labels, key) ==
    IF labels = <<>> THEN 0
    ELSE (IF Head(labels)[key] \in {NanText, FrequencyUnspecified} THEN 0
          ELSE DictGet(Head(labels), "percentage", 0))
         + NonSentinelPercentage(Tail(labels), key)

HasValidLabels(labels, key) ==
    \E i \in DOMAIN labels : labels[i][key] \notin {NanText, FrequencyUnspecified}

HasCycleForm(demand) == {"reqCycle", "reqCycleTimes"} \subseteq DOMAIN demand

HasFrequencyForm(demand) == "reqTimes" \in DOMAIN demand

\* C17: every generated demand carries exactly one timing form, reqCycle with
\* reqCycleTimes or reqTimes; the form kept is that of the dimension whose
\* non-sentinel labels have the higher cumulative percentage in the profile,
\* the cycle form on a tie; when neither dimension has a valid label the
\* demand carries reqTimes = "1".
C17_TimingFormOfHigherShare ==
    dpc = "done" =>
        \A i \in DOMAIN demands :
            LET demand == demands[i]
                cycle_labels == demand_profile_tags.scout_cycle_label
                frequency_labels == demand_profile_tags.scout_frequency_label
            IN  /\ HasCycleForm(demand) # HasFrequencyForm(demand)
                /\ ("reqCycle" \in DOMAIN demand) = ("reqCycleTimes" \in DOMAIN demand)
                /\ IF ~HasValidLabels(cycle_labels, "cycle_label")
                      /\ ~HasValidLabels(frequency_labels, "req_times")
                   THEN HasFrequencyForm(demand) /\ demand.reqTimes = <<"1">>
                   ELSE HasCycleForm(demand)
                            = (NonSentinelPercentage(cycle_labels, "cycle_label")
                                  >= NonSentinelPercentage(frequency_labels, "req_times"))

\* the part of C17 that is about the record only: one timing form, never both
C17_ExactlyOneTimingForm ==
    dpc = "done" =>
        \A i \in DOMAIN demands :
            /\ HasCycleForm(demands[i]) # HasFrequencyForm(demands[i])
            /\ ("reqCycle" \in DOMAIN demands[i]) = ("reqCycleTimes" \in DOMAIN demands[i])

\* the number of combinations the fields allow: the product over the fields
\* of min(3, number of candidate values)
RECURSIVE CombinationCount(_)
CombinationCount(fields) ==
    IF fields = <<>> THEN 1
    ELSE Min2(3, Len(Head(fields).items)) * CombinationCount(Tail(fields))

\* the candidate of a field that a combination chose: the one with the value
\* the combination has under the field's name (None: no value on either side)
ChosenItem(field, values) ==
    CHOOSE k \in DOMAIN field.items :
        IF "value" \in DOMAIN field.items[k]
        THEN field.name \in DOMAIN values /\ values[field.name] = field.items[k].value
        ELSE field.name \notin DOMAIN values

HasChosenItem(field, values) ==
    \E k \in DOMAIN field.items :
        IF "value" \in DOMAIN field.items[k]
        THEN field.name \in DOMAIN values /\ values[field.name] = field.items[k].value
        ELSE field.name \notin DOMAIN values

AmongThreeHeaviest(field, k) ==
    Cardinality({j \in DOMAIN field.items : field.items[j].weight > field.items[k].weight}) < 3

\* the product of the chosen weights in the unit of the scores of the call;
\* weights of 1.0 are left out of the product
RECURSIVE ChosenWeightProduct(_, _, _)
ChosenWeightProduct(fields, values, unit) ==
    IF fields = <<>> THEN unit
    ELSE LET weight == Head(fields).items[ChosenItem(Head(fields), values)].weight
         IN  IF weight = 100 THEN ChosenWeightProduct(Tail(fields), values, unit)
             ELSE weight * ChosenWeightProduct(Tail(fields), values, unit \div 100)

SameChoice(demand, values) ==
    /\ \A n \in {"reqCycle", "reqCycleTimes", "reqTimes"} :
          /\ (n \in DOMAIN demand) = (n \in DOMAIN values)
          /\ n \in DOMAIN values => demand[n] = values[n]
    /\ demand.targetPriority = values.targetPriority

\* C18: _calculate_field_combinations yields exactly the product over the
\* fields of min(3, number of candidate values) combinations; each takes, of
\* every field, one of its 3 heaviest values and is scored with the product
\* of the chosen weights; the demands of a target are these combinations in
\* non-increasing score order cut to top_n.
C18_TopThreeProductCutToTopN ==
    /\ dpc \in {"build", "done"} =>
          /\ Len(combinations) = CombinationCount(independent_fields)
          /\ \A c \in DOMAIN combinations :
                /\ \A i \in DOMAIN independent_fields :
                      /\ HasChosenItem(independent_fields[i], combinations[c].values)
                      /\ AmongThreeHeaviest(independent_fields[i],
                             ChosenItem(independent_fields[i], combinations[c].values))
                /\ combinations[c].score
                      = ChosenWeightProduct(independent_fields, combinations[c].values,
                                            combinations[c].score_unit)
          /\ \A c, d \in DOMAIN combinations :
                combinations[c].values = combinations[d].values => c = d
    /\ dpc = "done" =>
          /\ Len(demands) = Min2(demand_top_n, Len(combinations))
          /\ \A i \in DOMAIN demands :
                /\ i > 1 => demands[i - 1].weight_score >= demands[i].weight_score
                /\ Cardinality({c \in DOMAIN combinations :
                                   combinations[c].score > demands[i].weight_score}) < i
                /\ \E c \in DOMAIN combinations :
                      /\ combinations[c].score = demands[i].weight_score
                      /\ SameChoice(demands[i], combinations[c].values)
          /\ \A i, j \in DOMAIN demands :
                (i # j /\ demands[i].weight_score = demands[j].weight_score)
                    => demands[i] # demands[j]

\* C18 witness: a field with four candidates and a field with two give six
\* combinations, of which top_n = 2 demands are kept
C18_Witness ==
    /\ dpc = "done"
    /\ \E i \in DOMAIN independent_fields : Len(independent_fields[i].items) = 4
    /\ \E i \in DOMAIN independent_fields : Len(independent_fields[i].items) = 2
    /\ Len(combinations) = 6
    /\ demand_top_n = 2
    /\ Len(demands) = 2
    /\ demands[1].weight_score > demands[2].weight_score

(***************************************************************************)
(* Union of resolution intervals.                                          *)
(* target_tag_calculator.py, _parse_resolution_interval and                *)
(* _merge_resolution_intervals.  Numbers are held in hundredths.           *)
(***************************************************************************)

\* longest list of intervals merged in one call
MaxIntervals == 2

\* The interval texts of the model: plain intervals, a reversed one, a single
\* value, one with blanks, one with two decimals, and texts that do not parse.
\* No bound lies halfway between two tenths.
ResolutionTexts ==
    { <<"0", ".", "5", "-", "0", ".", "7">>,
      <<"0", ".", "6", "-", "0", ".", "9">>,
      <<"0", ".", "9", "-", "0", ".", "5">>,
      <<"0", ".", "7">>,
      <<" ", "0", ".", "6", " ", "-", " ", "1", " ">>,
      <<"0", ".", "5", "6", "-", "0", ".", "7", "4">>,
      <<"0", ".", "8", "-", "1", ".", "0">>,
      <<"a", "b", "c">>,
      <<"0", ".", "5", "-", "0", ".", "7", "-", "0", ".", "9">>,
      <<"0", ".", "5", "-", "x">> }

IntervalLists == UNION {[1..n -> ResolutionTexts] : n \in 0..MaxIntervals}

\* str.split(sep)
RECURSIVE Split(_, _, _)
Split(text, sep, current) ==
    IF text = <<>> THEN <<current>>
    ELSE IF Head(text) = sep THEN <<current>> \o Split(Tail(text), sep, <<>>)
    ELSE Split(Tail(text), sep, Append(current, Head(text)))

IsDigits(text) == text # <<>> /\ \A i \in DOMAIN text : text[i] \in SeqRange(Digits)

\* float(text) raised ValueError
NotANumber == -1

\* float(text.strip()) in hundredths, for decimals of at most two places
ParseFloat(text) ==
    LET parts == Split(Strip(text), ".", <<>>)
    IN  IF Len(parts) = 1 /\ IsDigits(parts[1]) THEN 100 * DigitsValue(parts[1], 0)
        ELSE IF Len(parts) = 2 /\ IsDigits(parts[1]) /\ IsDigits(parts[2])
                /\ Len(parts[2]) <= 2
             THEN 100 * DigitsValue(parts[1], 0)
                  + (IF Len(parts[2]) = 1 THEN 10 ELSE 1) * DigitsValue(parts[2], 0)
        ELSE NotANumber

\* _parse_resolution_interval: <<min, max>>, or <<>> for None
ParseResolutionInterval(interval_str) ==
    IF "-" \notin SeqRange(interval_str)
    THEN LET value == ParseFloat(interval_str)
         IN  IF value = NotANumber THEN <<>> ELSE <<value, value>>
    ELSE LET parts == Split(interval_str, "-", <<>>)
         IN  IF Len(parts) # 2 THEN <<>>
             ELSE LET min_val == ParseFloat(parts[1])
                      max_val == ParseFloat(parts[2])
                  IN  IF min_val = NotANumber \/ max_val = NotANumber THEN <<>>
                      ELSE IF min_val > max_val THEN <<max_val, min_val>>
                      ELSE <<min_val, max_val>>

\* str(n) of a natural number
RECURSIVE IntText(_)
IntText(n) ==
    IF n < 10 THEN <<Digits[n + 1]>> ELSE IntText(n \div 10) \o <<Digits[(n % 10) + 1]>>

\* f"{value:.1f}": the nearest tenth
FormatOneDecimal(value) ==
    LET tenths == RoundHalfEven(value, 10)
    IN  IntText(tenths \div 10) \o <<".", Digits[(tenths % 10) + 1]>>

\* _merge_resolution_intervals
MergeResolutionIntervals(interval_list) ==
    IF interval_list = <<>> THEN PyNone
    ELSE LET parsed_intervals ==
                 {ParseResolutionInterval(interval_list[i]) : i \in DOMAIN interval_list}
                     \ {<<>>}
         IN  IF parsed_intervals = {} THEN PyNone
             ELSE LET min_val == CHOOSE v \in {p[1] : p \in parsed_intervals} :
                                     \A p \in parsed_intervals : v <= p[1]
                      max_val == CHOOSE v \in {p[2] : p \in parsed_intervals} :
                                     \A p \in parsed_intervals : v >= p[2]
                  IN  FormatOneDecimal(min_val) \o <<"-">> \o FormatOneDecimal(max_val)

ResIdle ==
    /\ ipc = "idle"
    /\ intervals = <<>>
    /\ merged_interval = PyNone

ResFrame ==
    UNCHANGED <<hybridVars, matchVars, cfVars, remapVars, profileVars, personaVars,
                scoreVars, tagVars, hhiVars, demandVars,
          countVars,
          initVars,
          entryVars,
          lookupVars,
          parVars,
          tuneVars,
          autoVars>>

\* merged_interval = self._merge_resolution_intervals(top_intervals)
ResCall ==
    /\ ipc = "idle"
    /\ \E list \in IntervalLists :
          /\ intervals' = list
          /\ merged_interval' = MergeResolutionIntervals(list)
    /\ ipc' = "done"
    /\ ResFrame

ResReturn ==
    /\ ipc = "done"
    /\ ipc' = "idle"
    /\ intervals' = <<>>
    /\ merged_interval' = PyNone
    /\ ResFrame

ResNext ==
    \/ ResCall
    \/ ResReturn

ParseableIntervals == {ParseResolutionInterval(intervals[i]) : i \in DOMAIN intervals} \ {<<>>}

\* C19: the merged interval has as lower bound the least lower bound and as
\* upper bound the greatest upper bound of the parseable inputs, so that it
\* contains every input interval; ["0.5-0.7", "0.6-0.9"] gives "0.5-0.9".
C19_MergedIntervalIsHull ==
    (ipc = "done" /\ ParseableIntervals # {}) =>
        LET merged == ParseResolutionInterval(merged_interval)
        IN  /\ merged # <<>>
            /\ \A p \in ParseableIntervals : merged[1] <= p[1] /\ p[2] <= merged[2]
            /\ \E p \in ParseableIntervals : merged[1] = p[1]
            /\ \E p \in ParseableIntervals : merged[2] = p[2]
            /\ intervals = << <<"0", ".", "5", "-", "0", ".", "7">>,
                              <<"0", ".", "6", "-", "0", ".", "9">> >>
                  => merged_interval = <<"0", ".", "5", "-", "0", ".", "9">>

\* the example of C19 alone
C19_Example ==
    (ipc = "done"
     /\ intervals = << <<"0", ".", "5", "-", "0", ".", "7">>,
                       <<"0", ".", "6", "-", "0", ".", "9">> >>)
        => merged_interval = <<"0", ".", "5", "-", "0", ".", "9">>

(***************************************************************************)
(* Number of recommendations of a user.                                    *)
(* recommendation_algorithm.py, _calculate_recommendation_count            *)
(***************************************************************************)

\* largest total request count and largest small base count of the model
MaxRequests == 21
MaxBaseCount == 12

\* a base count whose product with 0.7 falls short of its exact value
LargeBaseCount == 90

BaseCounts == 1..MaxBaseCount \cup {LargeBaseCount}

\* request_frequency of a persona: the count under total_requests, under
\* total_count, under neither, or a text in place of the number
RequestFrequencies ==
    {[total_requests |-> [number |-> n]] : n \in 0..MaxRequests}
        \cup {[total_count |-> [number |-> n]] : n \in 0..MaxRequests}
        \cup {<<>>, [total_requests |-> [text |-> <<"5">>]]}

\* int(base_count * 0.7).  The double nearest to 0.7 is 0.7 - 0.4 * 2^-53, so
\* the exact product is 0.7 * base_count - 0.4 * base_count * 2^-53.  When
\* 0.7 * base_count is no whole number the product truncates to
\* floor(7 * base_count / 10).  When it is a whole number K, the doubles below
\* K are 2^(e-53) apart, 2^e the least power of two >= K, and the product is
\* rounded down to K - 2^(e-53), hence truncated to K - 1, exactly when
\* 0.4 * base_count > 2^(e-1), that is when a power of two lies strictly
\* between 0.7 * base_count and 0.8 * base_count.
RECURSIVE LeastPowerOfTwoAbove(_, _)
LeastPowerOfTwoAbove(tenfold, p) ==
    IF 10 * p > tenfold THEN p ELSE LeastPowerOfTwoAbove(tenfold, 2 * p)

SeventyPercent(b) ==
    IF b > 0 /\ b % 10 = 0 /\ 10 * LeastPowerOfTwoAbove(7 * b, 1) < 8 * b
    THEN (7 * b) \div 10 - 1
    ELSE (7 * b) \div 10

\* the count read from request_frequency
TotalRequests(frequency) ==
    LET total_requests ==
            IF "total_requests" \in DOMAIN frequency THEN frequency.total_requests
            ELSE DictGet(frequency, "total_count", [number |-> 0])
    IN  IF "number" \in DOMAIN total_requests THEN total_requests.number ELSE 0

\* the same with the base count, not its double, for the most active users
CalculateRecommendationCountCapped(frequency, b) ==
    LET total_requests == TotalRequests(frequency)
    IN  IF total_requests = 0 THEN Max2(3, b \div 2)
        ELSE IF total_requests < 5 THEN Max2(5, SeventyPercent(b))
        ELSE IF total_requests < 10 THEN b
        ELSE IF total_requests < 20 THEN RoundHalfEven(3 * b, 2)
        ELSE b

\* _calculate_recommendation_count
CalculateRecommendationCount(frequency, b) ==
    LET total_requests == TotalRequests(frequency)
    IN  IF total_requests = 0 THEN Max2(3, b \div 2)
        ELSE IF total_requests < 5 THEN Max2(5, SeventyPercent(b))
        ELSE IF total_requests < 10 THEN b
        ELSE IF total_requests < 20 THEN RoundHalfEven(3 * b, 2)
        ELSE b * 2

CountIdle ==
    /\ npc = "idle"
    /\ request_frequency = <<>>
    /\ base_count = 10
    /\ user_top_n = 0

CountFrame ==
    UNCHANGED <<hybridVars, matchVars, cfVars, remapVars, profileVars, personaVars,
                scoreVars, tagVars, hhiVars, demandVars, resVars,
          initVars,
          entryVars,
          lookupVars,
          parVars,
          tuneVars,
          autoVars>>

\* user_top_n = self._calculate_recommendation_count(request_frequency, base_top_n)
CountCall ==
    /\ npc = "idle"
    /\ \E frequency \in RequestFrequencies, b \in BaseCounts :
          /\ request_frequency' = frequency
          /\ base_count' = b
          /\ user_top_n' = CalculateRecommendationCount(frequency, b)
    /\ npc' = "done"
    /\ CountFrame

CountReturn ==
    /\ npc = "done"
    /\ npc' = "idle"
    /\ request_frequency' = <<>>
    /\ base_count' = 10
    /\ user_top_n' = 0
    /\ CountFrame

CountNext ==
    \/ CountCall
    \/ CountReturn

\* the total request count of the user, where the persona states one
StatedRequests == TotalRequests(request_frequency)

\* C20: with n the total request count and b the base count, the number of
\* recommendations is max(3, half of b) for n = 0, max(5, 70% of b) for
\* 0 < n < 5, b for 5 <= n < 10, 1.5 * b for 10 <= n < 20 and 2 * b for
\* n >= 20.  Fractions of a task are read in the claim's favour: half of b
\* and 70% of b as their whole part, 1.5 * b as either neighbouring whole
\* number.
C20_CountScalesWithRequests ==
    npc = "done" =>
        LET n == StatedRequests
            b == base_count
        IN  /\ n = 0 => user_top_n = Max2(3, b \div 2)
            /\ (0 < n /\ n < 5) => user_top_n = Max2(5, (7 * b) \div 10)
            /\ (5 <= n /\ n < 10) => user_top_n = b
            /\ (10 <= n /\ n < 20) => (3 * b - 1 <= 2 * user_top_n /\ 2 * user_top_n <= 3 * b + 1)
            /\ n >= 20 => user_top_n = 2 * b

\* C20 without the branch of 70%: the other four branches
C20_OtherBranches ==
    npc = "done" =>
        LET n == StatedRequests
            b == base_count
        IN  /\ n = 0 => user_top_n = Max2(3, b \div 2)
            /\ (5 <= n /\ n < 10) => user_top_n = b
            /\ (10 <= n /\ n < 20) => (3 * b - 1 <= 2 * user_top_n /\ 2 * user_top_n <= 3 * b + 1)
            /\ n >= 20 => user_top_n = 2 * b

\* the count a user with m requests gets for the base count of the call
CountFor(m) == CalculateRecommendationCount([total_requests |-> [number |-> m]], base_count)

\* C29 as stated: for a fixed base count the number of recommendations is
\* non-decreasing in the total request count.
C29_CountNonDecreasing ==
    npc = "done" => \A m \in 0..StatedRequests : CountFor(m) <= user_top_n

\* C29 amended: for a fixed base count of at least 5 the number of
\* recommendations is non-decreasing in the total request count.
C29_CountNonDecreasingFromFive ==
    (npc = "done" /\ base_count >= 5) =>
        \A m \in 0..StatedRequests : CountFor(m) <= user_top_n

\* C29 witness: a base count of at least 5 for which a user with 20 or more
\* requests gets more than a user with 12, who gets more than a user with 7,
\* who gets more than a user with 2, who gets more than a user with none
C29_Witness ==
    /\ npc = "done"
    /\ base_count >= 5
    /\ StatedRequests >= 20
    /\ CountFor(12) < user_top_n
    /\ CountFor(7) < CountFor(12)
    /\ CountFor(2) < CountFor(7)
    /\ CountFor(0) < CountFor(2)

(***************************************************************************)
(* Construction of the recommender.                                        *)
(* recommendation_algorithm.py, VirtualTaskRecommendationAlgorithm.__init__ *)
(* Supplied weights are whole hundredths; a weight held by the object is   *)
(* the fraction num / den.                                                 *)
(***************************************************************************)

\* the supplied content weights are 0, 0.2, .. , MaxWeightLevel * 0.2
MaxWeightLevel == 3
WeightValues == {20 * k : k \in 0..MaxWeightLevel}

\* (content_weight, cf_weight): the defaults, equal weights, and both zero
HybridWeightPairs == {<<70, 30>>, <<50, 50>>, <<0, 0>>}

\* weight_target_match, weight_region_match, weight_category_match,
\* weight_topic_match, weight_scout_scenario
ContentWeightVectors == [1..5 -> WeightValues]

\* self.weight_x = weight_x: the supplied value, in hundredths
AsSupplied(weights) == [i \in DOMAIN weights |-> [num |-> weights[i], den |-> 100]]

\* if abs(total_weight - 1.0) > 1e-6: self.weight_x /= total_weight
NormalizeContentWeightsSkipped(weights) == AsSupplied(weights)

NormalizeContentWeights(weights) ==
    LET total_weight == SumSeq(weights)
    IN  IF total_weight # 100
        THEN [i \in DOMAIN weights |-> [num |-> weights[i], den |-> total_weight]]
        ELSE AsSupplied(weights)

\* content_weight / total_hybrid_weight, cf_weight / total_hybrid_weight
NormalizeHybridWeights(pair) ==
    [i \in DOMAIN pair |-> [num |-> pair[i], den |-> pair[1] + pair[2]]]

InitIdle ==
    /\ wpc = "idle"
    /\ supplied_weights = <<25, 20, 20, 15, 20>>
    /\ supplied_hybrid = <<70, 30>>
    /\ content_weights = <<>>
    /\ hybrid_weights = <<>>
    /\ init_error = "none"

InitFrame ==
    UNCHANGED <<hybridVars, matchVars, cfVars, remapVars, profileVars, personaVars,
                scoreVars, tagVars, hhiVars, demandVars, resVars, countVars,
          entryVars,
          lookupVars,
          parVars,
          tuneVars,
          autoVars>>

\* __init__: the attributes are set, the hybrid weights are divided by their
\* sum, then the content weights by theirs; a division by zero ends the
\* construction with ZeroDivisionError and the attributes set so far
RecommenderInit ==
    /\ wpc = "idle"
    /\ \E weights \in ContentWeightVectors, pair \in HybridWeightPairs :
          /\ supplied_weights' = weights
          /\ supplied_hybrid' = pair
          /\ IF pair[1] + pair[2] = 0
             THEN /\ init_error' = "ZeroDivisionError"
                  /\ hybrid_weights' = <<>>
                  /\ content_weights' = AsSupplied(weights)
             ELSE /\ hybrid_weights' = NormalizeHybridWeights(pair)
                  /\ IF SumSeq(weights) = 0
                     THEN /\ init_error' = "ZeroDivisionError"
                          /\ content_weights' = AsSupplied(weights)
                     ELSE /\ init_error' = "none"
                          /\ content_weights' = NormalizeContentWeights(weights)
    /\ wpc' = "done"
    /\ InitFrame

RecommenderDiscard ==
    /\ wpc = "done"
    /\ wpc' = "idle"
    /\ supplied_weights' = <<25, 20, 20, 15, 20>>
    /\ supplied_hybrid' = <<70, 30>>
    /\ content_weights' = <<>>
    /\ hybrid_weights' = <<>>
    /\ init_error' = "none"
    /\ InitFrame

InitNext ==
    \/ RecommenderInit
    \/ RecommenderDiscard

RECURSIVE SumNum(_)
SumNum(held) == IF held = <<>> THEN 0 ELSE Head(held).num + SumNum(Tail(held))

\* the held weights sum to 1: they have one denominator, the sum of the
\* numerators
SumToOne(held) ==
    /\ \A i \in DOMAIN held : held[i].den = held[1].den
    /\ held[1].den > 0
    /\ SumNum(held) = held[1].den

\* held[i] / held[j] = supplied[i] / supplied[j]
RatiosKept(held, supplied) ==
    \A i, j \in DOMAIN held :
        held[i].num * held[j].den * supplied[j] = held[j].num * held[i].den * supplied[i]

MaxEntryMissions == 1
MaxEntryTopN == 2
MaxEntryBase == 2
MaxEntryItems == 1

EntryMissions ==
    UNION {[1..n -> [req_group : {"U1", "U2"}, target_id : {"T1", "T2"}]] :
              n \in 0..MaxEntryMissions}

EntryTargets == SUBSET {"T1", "T2"}

\* algorithm: a name of a strategy or an unknown one, top_n, and
\* hhi_threshold in hundredths (0.05, and two values outside [0, 1])
EntryConfigs ==
    [preference_algorithm : {"auto", "percentage", "unknown"},
     top_n : 0..MaxEntryTopN,
     hhi_threshold : {-5, 5, 150}]

\* PersonaTagCalculator._validate_params on the modelled parameters
ValidateParams(config) ==
    /\ config.preference_algorithm \in {"auto", "percentage", "tfidf", "bm25", "zscore"}
    /\ config.top_n >= 1
    /\ 0 <= config.hhi_threshold /\ config.hhi_threshold <= 100

\* generate_user_persona
GenerateUserPersona(targets, missions, config) ==
    IF targets = {} \/ missions = <<>>
    THEN [result |-> "ValueError", computed |-> <<>>, produced |-> 0]
    ELSE LET prepared ==
                 <<"_filter_missions_by_time">>
                     \o (IF config.preference_algorithm \in {"auto", "tfidf", "bm25"}
                         THEN <<"_calculate_global_stats">> ELSE <<>>)
         IN  IF ~ValidateParams(config)
             THEN [result |-> "ValueError", computed |-> prepared, produced |-> 0]
             ELSE [result |-> "returned",
                   computed |-> prepared \o <<"_group_missions_by_user",
                                              "generate_persona_tags">>,
                   produced |-> Cardinality({missions[i].req_group : i \in DOMAIN missions})]

\* generate_target_profile; TargetTagCalculator.__init__ reads the
\* configuration with defaults and tests nothing
GenerateTargetProfile(targets, missions, window, config) ==
    [result |-> "returned",
     computed |-> (IF window THEN <<"_filter_missions_by_time">> ELSE <<>>)
                      \o <<"_group_missions_by_target", "_compute_global_clustering">>
                      \o (IF missions # <<>> THEN <<"generate_profile_tags">> ELSE <<>>),
     produced |-> Cardinality({missions[i].target_id : i \in DOMAIN missions})]

\* recommend_tasks_for_users
RecommendTasksForUsers(tasks, personas, base_top_n) ==
    IF base_top_n <= 0
    THEN [result |-> "ValueError", computed |-> <<>>, produced |-> 0]
    ELSE IF tasks = 0 \/ personas = 0
    THEN [result |-> "returned", computed |-> <<>>, produced |-> 0]
    ELSE [result |-> "returned",
          computed |-> <<"target_profile_map", "_recommend_for_single_user">>,
          produced |-> personas]

EntryIdle ==
    /\ kpc = "idle"
    /\ entry_builder = "none"
    /\ entry_config = [preference_algorithm |-> "auto", top_n |-> 3, hhi_threshold |-> 5]
    /\ entry_targets = {}
    /\ entry_missions = <<>>
    /\ entry_base_top_n = 10
    /\ entry_outcome = [result |-> "none", computed |-> <<>>, produced |-> 0]

EntryFrame ==
    UNCHANGED <<hybridVars, matchVars, cfVars, remapVars, profileVars, personaVars,
                scoreVars, tagVars, hhiVars, demandVars, resVars, countVars, initVars,
          lookupVars,
          parVars,
          tuneVars,
          autoVars>>

EntryPersona ==
    /\ kpc = "idle"
    /\ \E targets \in EntryTargets, missions \in EntryMissions, config \in EntryConfigs :
          /\ entry_targets' = targets
          /\ entry_missions' = missions
          /\ entry_config' = config
          /\ entry_outcome' = GenerateUserPersona(targets, missions, config)
    /\ entry_builder' = "persona"
    /\ kpc' = "done"
    /\ UNCHANGED entry_base_top_n
    /\ EntryFrame

EntryProfile ==
    /\ kpc = "idle"
    /\ \E targets \in EntryTargets, missions \in EntryMissions, config \in EntryConfigs,
          window \in BOOLEAN :
          /\ entry_targets' = targets
          /\ entry_missions' = missions
          /\ entry_config' = config
          /\ entry_outcome' = GenerateTargetProfile(targets, missions, window, config)
    /\ entry_builder' = "profile"
    /\ kpc' = "done"
    /\ UNCHANGED entry_base_top_n
    /\ EntryFrame

EntryRecommender ==
    /\ kpc = "idle"
    /\ \E tasks \in 0..MaxEntryItems, personas \in 0..MaxEntryItems,
          base_top_n \in 0..MaxEntryBase :
          /\ entry_base_top_n' = base_top_n
          /\ entry_outcome' = RecommendTasksForUsers(tasks, personas, base_top_n)
    /\ entry_builder' = "recommender"
    /\ kpc' = "done"
    /\ UNCHANGED <<entry_config, entry_targets, entry_missions>>
    /\ EntryFrame

EntryReturn ==
    /\ kpc = "done"
    /\ kpc' = "idle"
    /\ entry_builder' = "none"
    /\ entry_config' = [preference_algorithm |-> "auto", top_n |-> 3, hhi_threshold |-> 5]
    /\ entry_targets' = {}
    /\ entry_missions' = <<>>
    /\ entry_base_top_n' = 10
    /\ entry_outcome' = [result |-> "none", computed |-> <<>>, produced |-> 0]
    /\ EntryFrame

EntryNext ==
    \/ EntryPersona
    \/ EntryProfile
    \/ EntryRecommender
    \/ EntryReturn

\* the configuration is invalid for the builder that was called
InvalidConfiguration ==
    \/ entry_builder = "persona" /\ ~ValidateParams(entry_config)
    \/ entry_builder = "profile" /\ entry_config.top_n < 1
    \/ entry_builder = "recommender" /\ entry_base_top_n <= 0

\* C22: an invalid configuration (unknown algorithm name, non-positive
\* Top-N, threshold out of range, base count <= 0) is rejected with an error
\* before any computation over missions, targets or tasks, in each of the
\* three builders.
C22_InvalidConfigurationFailsFast ==
    (kpc = "done" /\ InvalidConfiguration) =>
        /\ entry_outcome.result = "ValueError"
        /\ entry_outcome.computed = <<>>

\* the part of C22 that holds: the recommender rejects a base count <= 0
\* before anything else, and the persona builder never returns personas for
\* an invalid configuration
C22_RejectedWhereValidated ==
    (kpc = "done" /\ InvalidConfiguration /\ entry_builder # "profile") =>
        /\ entry_outcome.result = "ValueError"
        /\ entry_outcome.produced = 0

\* C23: generate_user_persona and generate_target_profile reject an empty
\* target list or an empty mission list with an error at entry and return
\* no personas or profiles.
C23_EmptyInputRejectedAtEntry ==
    (kpc = "done" /\ entry_builder \in {"persona", "profile"}
     /\ (entry_targets = {} \/ entry_missions = <<>>)) =>
        /\ entry_outcome.result = "ValueError"
        /\ entry_outcome.computed = <<>>
        /\ entry_outcome.produced = 0

\* the part of C23 that holds: generate_user_persona does so
C23_PersonaRejectsEmptyInput ==
    (kpc = "done" /\ entry_builder = "persona"
     /\ (entry_targets = {} \/ entry_missions = <<>>)) =>
        /\ entry_outcome.result = "ValueError"
        /\ entry_outcome.computed = <<>>
        /\ entry_outcome.produced = 0

(***************************************************************************)
(* Content recommendation for one user and the saving of the result.       *)
(* recommendation_algorithm.py _recommend_for_single_user,                 *)
(* _calculate_task_score, _match_topic_group, _match_scout_scenario,       *)
(* save_task_recommendations                                               *)
(***************************************************************************)

\* Length of the candidate list and the largest top_n.
MaxLookupTasks == 2
MaxLookupTopN == 2

\* The constructor's default weights, in hundredths; their sum is 1.0, so the
\* normalisation leaves them as they are.
WeightTargetMatch == 25
WeightRegionMatch == 20
WeightCategoryMatch == 20
WeightTopicMatch == 15
WeightScoutScenario == 20

LookupTargets == {"T1", "T2"}
\* generateTaskId values: the position in the candidate list
LookupTaskIds == [i \in 1..MaxLookupTasks |-> i]

\* persona_tags of the user: ranked label lists, one per dimension
LookupPersonas ==
    { [preferred_targets |-> t, preferred_regions |-> r,
       preferred_target_category |-> c, preferred_topic_group |-> g,
       preferred_scout_scenario |-> s] :
        t \in {<<>>, <<"T9", "T8", "T1">>}, r \in {<<>>, <<1>>},
        c \in {<<"A">>}, g \in {<<>>, [i \in 1..8 |-> i]},
        s \in {<<>>, [i \in 1..7 |-> i]} }

\* A target profile: {'profile_tags': {...}}
LookupProfiles ==
    { [profile_tags |->
         [spatial_density_label |-> <<1>>, target_category |-> <<"A">>,
          topic_group |-> <<1>>, preferred_scout_scenario_label |-> <<1, 9>>]],
      [profile_tags |->
         [spatial_density_label |-> <<2>>, target_category |-> <<"B">>,
          topic_group |-> <<1, 2>>, preferred_scout_scenario_label |-> <<1>>]],
      [profile_tags |->
         [spatial_density_label |-> <<2>>, target_category |-> <<"B">>,
          topic_group |-> [i \in 1..7 |-> i],
          preferred_scout_scenario_label |-> <<>>]] }

\* target_profile_map: target id -> profile, for some of the targets
LookupProfileMaps ==
    UNION { [S -> LookupProfiles] : S \in SUBSET LookupTargets }

\* cf_scores of this user: no entry, or an entry for the first task, or for
\* the first two
LookupCfScores ==
    { <<>>, <<6000>>, <<6000, 10000>> }

\* virtual_tasks: generateTaskId by position, targetId free
LookupTaskLists ==
    UNION { { [i \in 1..n |-> [generateTaskId |-> LookupTaskIds[i], targetId |-> f[i]]] :
                f \in [1..n -> LookupTargets] } : n \in 1..MaxLookupTasks }

\* _match_topic_group(preferred_topics, target_topics)
MatchTopicGroup(preferred_topics, target_topics) ==
    IF preferred_topics = <<>> THEN ScoreNoPreference
    ELSE IF target_topics = <<>> THEN ScoreNoTargetInfo
    ELSE LET match_count ==
                 Cardinality({i \in DOMAIN preferred_topics :
                                 preferred_topics[i] \in SeqRange(target_topics)})
         IN  IF match_count > 0
             THEN Max2((match_count * ScoreTop) \div Len(preferred_topics), ScoreNoMatch)
             ELSE ScoreNoMatch

\* _match_scout_scenario(preferred_scenarios, target_scout_scenarios)
MatchScoutScenario(preferred_scenarios, target_scout_scenarios) ==
    IF preferred_scenarios = <<>> THEN ScoreNoPreference
    ELSE IF target_scout_scenarios = <<>> THEN ScoreNoTargetInfo
    ELSE LET match_count ==
                 Cardinality({i \in DOMAIN preferred_scenarios :
                                 preferred_scenarios[i] \in SeqRange(target_scout_scenarios)})
         IN  IF match_count = 0 THEN ScoreNoMatch
             ELSE Max2(RoundHalfEven(match_count * ScoreTop, Len(preferred_scenarios)),
                       ScoreNoMatch)

\* target_profile.get('profile_tags', {}).get(key, [])
ProfileTag(target_profile, key) ==
    DictGet(DictGet(target_profile, "profile_tags", <<>>), key, <<>>)

\* _calculate_task_score(user_persona, virtual_task, target_profile)['total_score']
CalculateTaskScore(p_tags, vt, target_profile) ==
    RoundHalfEven(
        MatchTarget(p_tags.preferred_targets, vt.targetId) * WeightTargetMatch
        + MatchRegionFromProfile(p_tags.preferred_regions,
                                 ProfileTag(target_profile, "spatial_density_label"))
            * WeightRegionMatch
        + MatchTargetCategory(p_tags.preferred_target_category,
                              ProfileTag(target_profile, "target_category"))
            * WeightCategoryMatch
        + MatchTopicGroup(p_tags.preferred_topic_group,
                          ProfileTag(target_profile, "topic_group"))
            * WeightTopicMatch
        + MatchScoutScenario(p_tags.preferred_scout_scenario,
                             ProfileTag(target_profile, "preferred_scout_scenario_label"))
            * WeightScoutScenario,
        100)

\* The loop of _recommend_for_single_user: one entry per virtual task, the
\* profile looked up with target_profile_map.get(target_id, {}).
ScoreEveryTask(p_tags, tasks, profile_map) ==
    [i \in DOMAIN tasks |->
        [task_id |-> tasks[i].generateTaskId,
         target_id |-> tasks[i].targetId,
         score |-> CalculateTaskScore(p_tags, tasks[i],
                                      DictGet(profile_map, tasks[i].targetId, <<>>))]]

\* scored_tasks.sort(key=score, reverse=True); return scored_tasks[:top_n]
RecommendForSingleUser(p_tags, tasks, profile_map, n) ==
    Take(SortByScoreDesc(ScoreEveryTask(p_tags, tasks, profile_map)), n)

\* Lines 455-492 of _recommend_for_single_user_hybrid: the content score and
\* cf_scores.get((user_id, task_id), 0.0) of every virtual task
HybridCandidates(p_tags, tasks, profile_map, cf) ==
    [i \in DOMAIN tasks |->
        [task_id |-> tasks[i].generateTaskId,
         content_score |-> CalculateTaskScore(p_tags, tasks[i],
                              DictGet(profile_map, tasks[i].targetId, <<>>)),
         cf_score |-> DictGet(cf, tasks[i].generateTaskId, 0)]]

\* _recommend_for_single_user_hybrid from the sorted lists on: the hybrid
\* slots, the discovery tasks, the backfill, [:top_n]
HybridSelect(cands, n) ==
    LET hybrid == SortByScoreDesc([i \in DOMAIN cands |-> HybridEntry(cands[i])])
        found == SelectSeq(cands, IsDiscovery)
        discovery == SortByScoreDesc([i \in DOMAIN found |-> DiscoveryEntry(found[i])])
        slots == Take(hybrid, NumHybrid(n))
        existing == {slots[i].task_id : i \in DOMAIN slots}
        with_discovery ==
            DiscoveryLoop(discovery, existing, n - NumHybrid(n), slots, 0).final
        filled == IF Len(with_discovery) < n
                  THEN BackfillLoop(Drop(hybrid, NumHybrid(n)), existing, n,
                                    with_discovery)
                  ELSE with_discovery
    IN  Take(filled, n)

\* _recommend_for_single_user_hybrid(user_persona, virtual_tasks,
\*     target_profile_map, top_n, cf_scores)
RecommendForSingleUserHybrid(p_tags, tasks, profile_map, n, cf) ==
    HybridSelect(HybridCandidates(p_tags, tasks, profile_map, cf), n)

\* save_task_recommendations, the loop over one user's tasks: the catalog
\* entry of every recommended task whose id is in task_map
FullTasks(tasks, catalog) ==
    LET known == SelectSeq(tasks, LAMBDA t : t.task_id \in catalog)
    IN  [i \in DOMAIN known |-> known[i].task_id]

\* the warnings printed by that loop, one per task id that is not in task_map
LookupWarnings(tasks, catalog) ==
    Len(SelectSeq(tasks, LAMBDA t : t.task_id \notin catalog))

LookupFrame ==
    UNCHANGED <<hybridVars, matchVars, cfVars, remapVars, profileVars, personaVars,
                scoreVars, tagVars, hhiVars, demandVars, resVars, countVars, initVars,
                entryVars,
          parVars,
          tuneVars,
          autoVars>>

LookupIdle ==
    /\ lpc = "idle"
    /\ lookup_persona = <<>>
    /\ lookup_tasks = <<>>
    /\ target_profile_map = <<>>
    /\ lookup_top_n = 0
    /\ lookup_use_cf = FALSE
    /\ lookup_cf_scores = <<>>
    /\ task_map = {}
    /\ scored_tasks = <<>>
    /\ lookup_recommendations = <<>>
    /\ full_tasks = <<>>
    /\ lookup_warnings = 0

\* The data of one run: a persona, the candidate tasks, the profile map, a
\* positive top_n and the task ids of the catalog file.
LookupCall ==
    /\ lpc = "idle"
    /\ \E p \in LookupPersonas : lookup_persona' = p
    /\ \E tasks \in LookupTaskLists : lookup_tasks' = tasks
    /\ \E pm \in LookupProfileMaps : target_profile_map' = pm
    /\ \E n \in 1..MaxLookupTopN : lookup_top_n' = n
    /\ \E b \in BOOLEAN : lookup_use_cf' = b
    /\ \E cf \in LookupCfScores : lookup_cf_scores' = cf
    /\ \E catalog \in SUBSET SeqRange(LookupTaskIds) : task_map' = catalog
    /\ lpc' = "called"
    /\ UNCHANGED <<scored_tasks, lookup_recommendations, full_tasks, lookup_warnings>>
    /\ LookupFrame

\* recommend_tasks_for_users, lines 160-176: the hybrid recommender when
\* use_cf holds, else the content recommender
LookupRecommend ==
    /\ lpc = "called"
    /\ scored_tasks' = ScoreEveryTask(lookup_persona, lookup_tasks, target_profile_map)
    /\ lookup_recommendations' =
          IF lookup_use_cf
          THEN RecommendForSingleUserHybrid(lookup_persona, lookup_tasks,
                                            target_profile_map, lookup_top_n,
                                            lookup_cf_scores)
          ELSE RecommendForSingleUser(lookup_persona, lookup_tasks, target_profile_map,
                                      lookup_top_n)
    /\ lpc' = "recommended"
    /\ UNCHANGED <<lookup_persona, lookup_tasks, target_profile_map, lookup_top_n,
                   lookup_use_cf, lookup_cf_scores, task_map, full_tasks, lookup_warnings>>
    /\ LookupFrame

\* save_task_recommendations
LookupSave ==
    /\ lpc = "recommended"
    /\ full_tasks' = FullTasks(lookup_recommendations, task_map)
    /\ lookup_warnings' = LookupWarnings(lookup_recommendations, task_map)
    /\ lpc' = "saved"
    /\ UNCHANGED <<lookup_persona, lookup_tasks, target_profile_map, lookup_top_n,
                   lookup_use_cf, lookup_cf_scores, task_map, scored_tasks, lookup_recommendations>>
    /\ LookupFrame

LookupReturn ==
    /\ lpc = "saved"
    /\ lpc' = "idle"
    /\ lookup_persona' = <<>>
    /\ lookup_tasks' = <<>>
    /\ target_profile_map' = <<>>
    /\ lookup_top_n' = 0
    /\ lookup_use_cf' = FALSE
    /\ lookup_cf_scores' = <<>>
    /\ task_map' = {}
    /\ scored_tasks' = <<>>
    /\ lookup_recommendations' = <<>>
    /\ full_tasks' = <<>>
    /\ lookup_warnings' = 0
    /\ LookupFrame

LookupNext ==
    \/ LookupCall
    \/ LookupRecommend
    \/ LookupSave
    \/ LookupReturn

\* C24: a candidate task whose target id has no entry in the target-profile
\* map is neither scored nor recommended, and the run goes on; a recommended
\* task id that is missing from the task catalog is left out of the saved
\* output, the other tasks being saved in their order.
C24_LookupMissSkipped ==
    /\ lpc \in {"recommended", "saved"} =>
          /\ \A i \in DOMAIN scored_tasks :
                scored_tasks[i].target_id \in DOMAIN target_profile_map
          /\ \A i \in DOMAIN lookup_recommendations :
                lookup_tasks[lookup_recommendations[i].task_id].targetId
                    \in DOMAIN target_profile_map
    /\ lpc = "saved" =>
          /\ SeqRange(full_tasks) = {lookup_recommendations[i].task_id :
                                        i \in DOMAIN lookup_recommendations} \cap task_map
          /\ Len(full_tasks) + lookup_warnings = Len(lookup_recommendations)

\* The task ids of a recommendation list, in its order.
TaskIdSeq(recs) == [i \in DOMAIN recs |-> recs[i].task_id]

\* C30: when collaborative filtering is in use and the user has no CF score
\* for any task, the hybrid recommender returns the same task ids in the same
\* order as the content recommender does with the same top_n.
C30_HybridWithoutCfAsContent ==
    (lpc = "recommended" /\ lookup_use_cf /\ lookup_cf_scores = <<>>) =>
        TaskIdSeq(lookup_recommendations)
            = TaskIdSeq(RecommendForSingleUser(lookup_persona, lookup_tasks,
                                               target_profile_map, lookup_top_n))

\* C24, the second half alone: what save_task_recommendations leaves out.
C24_UnknownTaskIdLeftOut ==
    lpc = "saved" =>
        /\ SeqRange(full_tasks) = {lookup_recommendations[i].task_id :
                                      i \in DOMAIN lookup_recommendations} \cap task_map
        /\ Len(full_tasks) + lookup_warnings = Len(lookup_recommendations)

(***************************************************************************)
(* The per-user phase of recommend_tasks_for_users, the users taken in any *)
(* order and interleaved.                                                  *)
(* recommendation_algorithm.py recommend_tasks_for_users (139-185),        *)
(* _recommend_for_single_user_hybrid (519-533)                             *)
(***************************************************************************)

\* Number of personas and the largest base_top_n.
MaxParUsers == 2
MaxParBase == 2

\* virtual_tasks and target_profile_map of the run
ParTasks ==
    << [generateTaskId |-> 1, targetId |-> "T1"],
       [generateTaskId |-> 2, targetId |-> "T2"] >>

ParProfileMap ==
    [T1 |-> [profile_tags |->
               [spatial_density_label |-> <<2>>, target_category |-> <<"B">>,
                topic_group |-> <<1, 2>>, preferred_scout_scenario_label |-> <<1>>]],
     T2 |-> [profile_tags |->
               [spatial_density_label |-> <<1>>, target_category |-> <<"A">>,
                topic_group |-> <<1>>, preferred_scout_scenario_label |-> <<1, 9>>]]]

\* persona_tags of a user: the five preference lists and request_frequency
ParPersonas ==
    { [preferred_targets |-> t, preferred_regions |-> <<1>>,
       preferred_target_category |-> <<"A">>,
       preferred_topic_group |-> [i \in 1..8 |-> i],
       preferred_scout_scenario |-> [i \in 1..7 |-> i],
       request_frequency |-> f] :
        t \in {<<>>, <<"T9", "T8", "T1">>},
        f \in {<<>>, [total_requests |-> [number |-> 7]]} }

\* len(cf_discovery) > 0 in the hybrid recommender
HasCfDiscovery(p_tags, tasks, profile_map, cf) ==
    SelectSeq(HybridCandidates(p_tags, tasks, profile_map, cf), IsDiscovery) # <<>>

\* The list recommend_tasks_for_users computes for one user (lines 154-176).
RecommendationsOfUser(p_tags, base_top_n, use_cf, cf) ==
    LET n == CalculateRecommendationCount(p_tags.request_frequency, base_top_n)
    IN  IF use_cf
        THEN RecommendForSingleUserHybrid(p_tags, ParTasks, ParProfileMap, n, cf)
        ELSE RecommendForSingleUser(p_tags, ParTasks, ParProfileMap, n)

ParUsers == DOMAIN par_personas

\* use_cf = self.enable_cf and len(user_personas) > 1
ParUseCf == par_enable_cf /\ Len(par_personas) > 1

ParFrame ==
    UNCHANGED <<hybridVars, matchVars, cfVars, remapVars, profileVars, personaVars,
                scoreVars, tagVars, hhiVars, demandVars, resVars, countVars, initVars,
                entryVars, lookupVars,
          tuneVars,
          autoVars>>

ParIdle ==
    /\ qpc = "idle"
    /\ par_personas = <<>>
    /\ par_cf_scores = <<>>
    /\ par_enable_cf = FALSE
    /\ par_base_top_n = 0
    /\ user_pc = <<>>
    /\ user_recommendations = <<>>
    /\ all_recommendations = <<>>
    /\ first_user_logged = FALSE

\* The call up to the loop: a fresh recommender, the personas (their user
\* keys are pairwise distinct: the position), the CF scores of every user.
ParCall ==
    /\ qpc = "idle"
    /\ \E n \in 1..MaxParUsers :
          /\ \E ps \in [1..n -> ParPersonas] : par_personas' = ps
          /\ \E cf \in [1..n -> LookupCfScores] : par_cf_scores' = cf
          /\ user_pc' = [u \in 1..n |-> "todo"]
          /\ user_recommendations' = [u \in 1..n |-> <<>>]
    /\ \E b \in BOOLEAN : par_enable_cf' = b
    /\ \E k \in 1..MaxParBase : par_base_top_n' = k
    /\ qpc' = "running"
    /\ UNCHANGED <<all_recommendations, first_user_logged>>
    /\ ParFrame

\* Lines 141-176 for user u, up to line 517 of the hybrid recommender when
\* use_cf holds: the list of this user.
ParRecommend(u) ==
    /\ qpc = "running"
    /\ user_pc[u] = "todo"
    /\ user_recommendations' =
          [user_recommendations EXCEPT
              ![u] = RecommendationsOfUser(par_personas[u], par_base_top_n, ParUseCf,
                                           par_cf_scores[u])]
    /\ user_pc' = [user_pc EXCEPT ![u] = IF ParUseCf THEN "ranked" ELSE "returned"]
    /\ UNCHANGED <<qpc, par_personas, par_cf_scores, par_enable_cf, par_base_top_n,
                   all_recommendations, first_user_logged>>
    /\ ParFrame

\* Lines 519-531 of the hybrid recommender for user u:
\* if self.enable_cf and hasattr(self, '_first_user_logged'): pass
\* elif self.enable_cf and len(cf_discovery) > 0: self._first_user_logged = True
ParLogFirstUser(u) ==
    /\ qpc = "running"
    /\ user_pc[u] = "ranked"
    /\ first_user_logged' =
          IF par_enable_cf /\ first_user_logged THEN first_user_logged
          ELSE IF par_enable_cf
                  /\ HasCfDiscovery(par_personas[u], ParTasks, ParProfileMap,
                                    par_cf_scores[u])
               THEN TRUE
               ELSE first_user_logged
    /\ user_pc' = [user_pc EXCEPT ![u] = "returned"]
    /\ UNCHANGED <<qpc, par_personas, par_cf_scores, par_enable_cf, par_base_top_n,
                   user_recommendations, all_recommendations>>
    /\ ParFrame

\* Line 178: all_recommendations[user_key] = recommendations
ParStore(u) ==
    /\ qpc = "running"
    /\ user_pc[u] = "returned"
    /\ all_recommendations' =
          [k \in DOMAIN all_recommendations \cup {u} |->
              IF k = u THEN user_recommendations[u] ELSE all_recommendations[k]]
    /\ user_pc' = [user_pc EXCEPT ![u] = "stored"]
    /\ UNCHANGED <<qpc, par_personas, par_cf_scores, par_enable_cf, par_base_top_n,
                   user_recommendations, first_user_logged>>
    /\ ParFrame

\* Line 185: return all_recommendations
ParReturn ==
    /\ qpc = "running"
    /\ \A u \in ParUsers : user_pc[u] = "stored"
    /\ qpc' = "done"
    /\ UNCHANGED <<par_personas, par_cf_scores, par_enable_cf, par_base_top_n, user_pc,
                   user_recommendations, all_recommendations, first_user_logged>>
    /\ ParFrame

ParNext ==
    \/ ParCall
    \/ \E u \in ParUsers : ParRecommend(u)
    \/ \E u \in ParUsers : ParLogFirstUser(u)
    \/ \E u \in ParUsers : ParStore(u)
    \/ ParReturn

\* The lists of the sequential run: the users one after the other.
SequentialRecommendations ==
    [u \in ParUsers |->
        RecommendationsOfUser(par_personas[u], par_base_top_n, ParUseCf,
                              par_cf_scores[u])]

\* A step of the per-user phase.
PerUserStep == qpc = "running" /\ qpc' = "running"

\* C25: during the per-user phase no state shared between the users is
\* written (a step of one user changes, besides that user's own position and
\* list, only that user's entry of the result), and whatever the order or the
\* interleaving of the users, the returned lists are those of the sequential
\* run.
C25_NoSharedStateWritten ==
    /\ [][PerUserStep =>
            /\ first_user_logged' = first_user_logged
            /\ \A u \in ParUsers :
                  (u \in DOMAIN all_recommendations /\ user_pc'[u] = user_pc[u])
                     => (/\ u \in DOMAIN all_recommendations'
                         /\ all_recommendations'[u] = all_recommendations[u])]_vars
    /\ [](qpc = "done" => all_recommendations = SequentialRecommendations)

\* C25, the lists alone: in every order and interleaving the returned lists
\* are those of the sequential run.
C25_ListsAsSequential ==
    qpc = "done" => all_recommendations = SequentialRecommendations

(***************************************************************************)
(* The attempt loop of the auto-tuned clustering, one attempt per step.    *)
(* clustering.py _cluster_with_auto_tune (150-198)                         *)
(***************************************************************************)

\* Number of coordinates.
MaxTunePoints == 6

\* base_eps in kilometres
TuneEpsKms == {40}

\* Positions of the points along the great circle, in kilometres; no two are
\* at a distance that equals the eps of an attempt.
TunePositions == {0, 9, 18, 45, 150, 300, 500}

\* coords_rad: up to MaxTunePoints points at pairwise distinct positions, in
\* increasing position
TuneCoords ==
    { SetToIncSeq(S) : S \in { T \in SUBSET TunePositions :
                                 Cardinality(T) \in 1..MaxTunePoints } }

\* desired_min_clusters and max_attempts of the clustering object
TuneDesired == {1, 2, 5}
TuneMaxAttempts == {0, 1, 3, 6, 10}

\* fit_predict hands over min_samples = max(1, min(min_samples, n // 2 or 1))
TuneMinSamples(n) == 1..Max2(1, n \div 2)

\* cur_min_samples = min(max(1, base_min_samples
\*                              - max(0, attempt_idx - len(eps_scales) // 3)), n)
CurMinSamples(base_min_samples, attempt_idx, num_scales, n) ==
    Min2(Max2(1, base_min_samples - Max2(0, attempt_idx - (num_scales \div 3))), n)

\* the comparison turned round: score < best_score
ScoreBelow(score, held) == held = <<>> \/ score < held[1]

\* score > best_score, best_score starting at float("-inf"): the score held
\* is a list of zero or one number
ScoreAbove(score, held) == held = <<>> \/ score > held[1]

\* Lines 194-197: best_labels (a list of zero or one labelling) after the loop
FallbackLabels(held, tried, n) ==
    IF held # <<>> THEN held[1]
    ELSE IF tried # <<>>
         THEN LET most == CHOOSE i \in DOMAIN tried :
                             /\ \A j \in DOMAIN tried :
                                   ClusterCount(tried[j].labels)
                                      <= ClusterCount(tried[i].labels)
                             /\ \A j \in 1..(i - 1) :
                                   ClusterCount(tried[j].labels)
                                      < ClusterCount(tried[i].labels)
              IN  tried[most].labels
         ELSE [j \in 1..n |-> NoiseLabel]

TuneFrame ==
    UNCHANGED <<hybridVars, matchVars, cfVars, remapVars, profileVars, personaVars,
                scoreVars, tagVars, hhiVars, demandVars, resVars, countVars, initVars,
                entryVars, lookupVars, parVars,
          autoVars>>

TuneIdle ==
    /\ upc = "idle"
    /\ tune_coords = <<>>
    /\ tune_eps_km = 0
    /\ tune_min_samples = 0
    /\ tune_desired = 0
    /\ tune_eps_scales = <<>>
    /\ tune_attempt_idx = 0
    /\ tune_attempts = <<>>
    /\ tune_best_score = <<>>
    /\ tune_best_labels = <<>>
    /\ tune_returned = <<>>

\* Lines 150-155, auto_tune on: the inputs and eps_scales[:max_attempts].
TuneCall ==
    /\ upc = "idle"
    /\ \E c \in TuneCoords :
          /\ tune_coords' = c
          /\ \E m \in TuneMinSamples(Len(c)) : tune_min_samples' = m
    /\ \E e \in TuneEpsKms : tune_eps_km' = e
    /\ \E d \in TuneDesired : tune_desired' = d
    /\ \E k \in TuneMaxAttempts : tune_eps_scales' = Take(EpsScalesTenths, k)
    /\ tune_attempt_idx' = 0
    /\ tune_attempts' = <<>>
    /\ tune_best_score' = <<>>
    /\ tune_best_labels' = <<>>
    /\ upc' = "loop"
    /\ UNCHANGED tune_returned
    /\ TuneFrame

\* Lines 157-191: one pass of the loop.
TuneAttempt ==
    /\ upc = "loop"
    /\ tune_attempt_idx < Len(tune_eps_scales)
    /\ \E cur_min_samples \in
            {CurMinSamples(tune_min_samples, tune_attempt_idx, Len(tune_eps_scales),
                           Len(tune_coords))} :
       \E labels \in {ApplyDbscan(tune_coords,
                                  tune_eps_km * tune_eps_scales[tune_attempt_idx + 1],
                                  cur_min_samples)} :
          /\ tune_attempts' =
                Append(tune_attempts,
                       [scale |-> tune_eps_scales[tune_attempt_idx + 1],
                        min_samples |-> cur_min_samples, labels |-> labels])
          /\ IF AttemptAccepted(labels, tune_desired)
             THEN /\ tune_best_labels' = <<labels>>
                  /\ upc' = "after"
                  /\ UNCHANGED <<tune_best_score, tune_attempt_idx>>
             ELSE /\ IF ScoreAbove(AttemptScore(labels, tune_desired), tune_best_score)
                     THEN /\ tune_best_score' = <<AttemptScore(labels, tune_desired)>>
                          /\ tune_best_labels' = <<labels>>
                     ELSE UNCHANGED <<tune_best_score, tune_best_labels>>
                  /\ tune_attempt_idx' = tune_attempt_idx + 1
                  /\ UNCHANGED upc
    /\ UNCHANGED <<tune_coords, tune_eps_km, tune_min_samples, tune_desired, tune_eps_scales,
                   tune_returned>>
    /\ TuneFrame

\* Lines 193-198: after the break or the last pass.
TuneReturn ==
    /\ \/ upc = "after"
       \/ upc = "loop" /\ tune_attempt_idx >= Len(tune_eps_scales)
    /\ tune_returned' = FallbackLabels(tune_best_labels, tune_attempts, Len(tune_coords))
    /\ upc' = "done"
    /\ UNCHANGED <<tune_coords, tune_eps_km, tune_min_samples, tune_desired, tune_eps_scales,
                   tune_attempt_idx, tune_attempts, tune_best_score, tune_best_labels>>
    /\ TuneFrame

TuneNext ==
    \/ TuneCall
    \/ TuneAttempt
    \/ TuneReturn

\* The labelling attempt a (counted from 1) gives on the inputs of the run.
LabelsOfAttempt(a) ==
    ApplyDbscan(tune_coords, tune_eps_km * EpsScalesTenths[a],
                CurMinSamples(tune_min_samples, a - 1, Len(tune_eps_scales),
                              Len(tune_coords)))

\* The acceptance test as stated: the cluster count is at least
\* desired_min_clusters, or there is a cluster and the noise ratio is at most
\* noise_ratio_threshold (0.45).
MeetsAcceptanceTest(labels) ==
    \/ ClusterCount(labels) >= tune_desired
    \/ /\ ClusterCount(labels) >= 1
       /\ 100 * NoiseCount(labels) <= 45 * Len(labels)

\* The attempts, in eps-scale order, that meet the acceptance test.
AcceptableAttempts ==
    {a \in 1..Len(tune_eps_scales) : MeetsAcceptanceTest(LabelsOfAttempt(a))}

FirstAcceptable ==
    CHOOSE a \in AcceptableAttempts : \A b \in AcceptableAttempts : a <= b

\* C26: with auto_tune on the attempts run in the order of eps_scales, and the
\* search stops at the first attempt that meets the acceptance test: its
\* labelling is returned and no later attempt is run.
C26_StopsAtFirstAcceptedAttempt ==
    upc = "done" =>
        /\ \A i \in DOMAIN tune_attempts :
              /\ tune_attempts[i].scale = EpsScalesTenths[i]
              /\ tune_attempts[i].labels = LabelsOfAttempt(i)
        /\ AcceptableAttempts # {} =>
              /\ tune_returned = LabelsOfAttempt(FirstAcceptable)
              /\ Len(tune_attempts) = FirstAcceptable

\* C26 witness: the third attempt is the first to meet the test, by its noise
\* ratio and with fewer clusters than desired, and later scales were left
\* untried.
C26_Witness ==
    /\ upc = "done"
    /\ AcceptableAttempts # {}
    /\ FirstAcceptable >= 2
    /\ Len(tune_attempts) = FirstAcceptable
    /\ Len(tune_attempts) < Len(tune_eps_scales)
    /\ ClusterCount(tune_returned) < tune_desired
    /\ CurMinSamples(tune_min_samples, FirstAcceptable - 1, Len(tune_eps_scales),
                     Len(tune_coords)) >= 2

\* The score as stated, times 10 * n:
\* cluster_count - 0.7 * |cluster_count - desired_min_clusters| - noise_ratio
StatedScore(labels) ==
    Len(labels) * (10 * ClusterCount(labels)
                   - 7 * Abs(ClusterCount(labels) - tune_desired))
    - 10 * NoiseCount(labels)

\* The attempt with the highest stated score, the earliest on ties.
HighestScoreAttempt ==
    CHOOSE a \in 1..Len(tune_eps_scales) :
        /\ \A b \in 1..Len(tune_eps_scales) :
              StatedScore(LabelsOfAttempt(b)) <= StatedScore(LabelsOfAttempt(a))
        /\ \A b \in 1..(a - 1) :
              StatedScore(LabelsOfAttempt(b)) < StatedScore(LabelsOfAttempt(a))

\* C27: with auto_tune on and no attempt meeting the acceptance test, the
\* returned labelling is that of the attempt with the highest score (the
\* earliest on ties); when no attempt is run at all (max_attempts = 0) every
\* point is labelled -1.
C27_BestScoreWhenNoneAccepted ==
    (upc = "done" /\ AcceptableAttempts = {}) =>
        IF tune_eps_scales = <<>>
        THEN tune_returned = [j \in DOMAIN tune_coords |-> NoiseLabel]
        ELSE tune_returned = LabelsOfAttempt(HighestScoreAttempt)

\* C27 witness: three attempts, none accepted, the last one with the highest
\* score and a labelling of its own.
C27_Witness ==
    /\ upc = "done"
    /\ AcceptableAttempts = {}
    /\ Len(tune_attempts) = 3
    /\ HighestScoreAttempt = 3
    /\ tune_returned = tune_attempts[3].labels
    /\ tune_returned # tune_attempts[1].labels
    /\ ClusterCount(tune_returned) >= 1

(***************************************************************************)
(* The strategy picked in auto mode.                                       *)
(* persona_tag_calculator.py _calculate_target_proportion (181-239)        *)
(***************************************************************************)

\* The gates of the automatic choice, the defaults.
AutoTfidfMinUsers == 10
AutoTfidfMinTargets == 20
AutoBm25MinUsers == 5
AutoBm25MinTargets == 10
AutoZscoreMinTargets == 5

\* k entries equal to x
Repeat(x, k) == [i \in 1..k |-> x]

\* list(target_counts.values()) of a requester: one count per distinct
\* target, each at least 1.  The last list has 66 missions on 21 targets.
AutoCountLists ==
    ({ Repeat(1, a) \o Repeat(k, b) :
          a \in {0, 3, 4, 8, 9, 18, 19, 20, 49}, k \in {2, 10}, b \in {0, 1, 2} }
        \ {<<>>})
    \cup { Repeat(3, 10) \o Repeat(2, 4) \o Repeat(4, 7) }

\* global_stats.get('total_users', 0)
AutoTotalUsers == {0, 4, 5, 9, 10}

\* cv = stdev(counts) / mean(counts) > cv_threshold, cv_threshold = 1.0 and
\* cv = 0 for a single count: with n counts of sum T and sum of squares S,
\* stdev^2 = (S - T^2/n) / (n - 1) and mean^2 = T^2 / n^2.
CvAboveThreshold(seq) ==
    /\ Len(seq) > 1
    /\ Len(seq) * Len(seq) * SumOfSquares(seq)
          > (2 * Len(seq) - 1) * SumSeq(seq) * SumSeq(seq)

\* Lines 194-225: the algorithm auto mode settles on.  concentration['hhi']
\* is the rounded index, in units of 1e-4.
AutoAlgorithm(seq, total_users) ==
    IF CalculateConcentrationIndex(seq).hhi > HhiThresholdHundredths * 100
    THEN "percentage"
    ELSE LET unique_targets == Len(seq)
         IN  IF /\ total_users >= AutoTfidfMinUsers
                /\ unique_targets >= AutoTfidfMinTargets
             THEN "tfidf"
             ELSE IF /\ total_users >= AutoBm25MinUsers
                     /\ unique_targets >= AutoBm25MinTargets
                  THEN IF CvAboveThreshold(seq) THEN "bm25" ELSE "tfidf"
                  ELSE IF unique_targets >= AutoZscoreMinTargets THEN "zscore"
                       ELSE "percentage"

AutoFrame ==
    UNCHANGED <<hybridVars, matchVars, cfVars, remapVars, profileVars, personaVars,
                scoreVars, tagVars, hhiVars, demandVars, resVars, countVars, initVars,
                entryVars, lookupVars, parVars, tuneVars>>

AutoIdle ==
    /\ apc = "idle"
    /\ auto_counts = <<>>
    /\ auto_total_users = 0
    /\ auto_algorithm = "none"

\* _calculate_target_proportion is called for a requester, in auto mode.
AutoCall ==
    /\ apc = "idle"
    /\ \E c \in AutoCountLists : auto_counts' = c
    /\ \E u \in AutoTotalUsers : auto_total_users' = u
    /\ apc' = "called"
    /\ UNCHANGED auto_algorithm
    /\ AutoFrame

\* Lines 194-225
AutoChoose ==
    /\ apc = "called"
    /\ auto_algorithm' = AutoAlgorithm(auto_counts, auto_total_users)
    /\ apc' = "done"
    /\ UNCHANGED <<auto_counts, auto_total_users>>
    /\ AutoFrame

AutoReturn ==
    /\ apc = "done"
    /\ apc' = "idle"
    /\ auto_counts' = <<>>
    /\ auto_total_users' = 0
    /\ auto_algorithm' = "none"
    /\ AutoFrame

AutoNext ==
    \/ AutoCall
    \/ AutoChoose
    \/ AutoReturn

\* HHI > hhi_threshold (0.05) for the requester's counts: sum of squares over
\* the squared total, compared exactly.
HhiAboveThreshold(seq) == 20 * SumOfSquares(seq) > SumSeq(seq) * SumSeq(seq)

\* The strategy as stated.
StatedStrategy(seq, total_users) ==
    IF HhiAboveThreshold(seq) THEN "percentage"
    ELSE IF total_users >= 10 /\ Len(seq) >= 20 THEN "tfidf"
    ELSE IF total_users >= 5 /\ Len(seq) >= 10
         THEN IF CvAboveThreshold(seq) THEN "bm25" ELSE "tfidf"
    ELSE IF Len(seq) >= 5 THEN "zscore"
    ELSE "percentage"

\* C28: in auto mode exactly one strategy is chosen for every requester:
\* percentage if HHI > hhi_threshold; otherwise tf-idf if total users >= 10
\* and distinct targets >= 20; otherwise, if total users >= 5 and distinct
\* targets >= 10, bm25 when the coefficient of variation exceeds cv_threshold
\* and tf-idf when it does not; otherwise z-score if distinct targets >= 5;
\* otherwise percentage.
C28_AutoStrategy ==
    apc = "done" =>
        /\ auto_algorithm \in {"percentage", "tfidf", "bm25", "zscore"}
        /\ auto_algorithm = StatedStrategy(auto_counts, auto_total_users)

\* C28 for the requesters whose HHI, rounded to four decimals, is on the same
\* side of the threshold as the HHI itself.
C28_AutoStrategyOfRoundedHhi ==
    (apc = "done"
       /\ (HhiAboveThreshold(auto_counts)
             <=> CalculateConcentrationIndex(auto_counts).hhi
                    > HhiThresholdHundredths * 100)) =>
        auto_algorithm = StatedStrategy(auto_counts, auto_total_users)

(***************************************************************************)
(* Specifications: one per operation under study; the other operations     *)
(* stay idle.                                                              *)
(***************************************************************************)
InitAll == HybridIdle /\ MatchIdle /\ CfIdle /\ RemapIdle /\ ProfileIdle
           /\ PersonaIdle /\ ScoreIdle /\ TagIdle /\ HhiIdle /\ DemandIdle /\ ResIdle /\ CountIdle /\ InitIdle /\ EntryIdle /\ LookupIdle /\ ParIdle /\ TuneIdle /\ AutoIdle

SpecHybrid == InitAll /\ [][HybridNext]_vars
SpecMatch == InitAll /\ [][MatchNext]_vars
SpecCf == InitAll /\ [][CfNext]_vars
SpecRemap == InitAll /\ [][RemapNext]_vars
SpecProfile == InitAll /\ [][ProfileNext]_vars
SpecPersona == InitAll /\ [][PersonaNext]_vars
SpecScore == InitAll /\ [][ScoreNext]_vars
SpecTags == InitAll /\ [][TagNext]_vars
SpecHhi == InitAll /\ [][HhiNext]_vars
SpecDemand == InitAll /\ [][DemandNext]_vars
SpecRes == InitAll /\ [][ResNext]_vars
SpecCount == InitAll /\ [][CountNext]_vars
SpecInit == InitAll /\ [][InitNext]_vars
SpecEntry == InitAll /\ [][EntryNext]_vars
SpecLookup == InitAll /\ [][LookupNext]_vars
SpecPar == InitAll /\ [][ParNext]_vars
SpecTune == InitAll /\ [][TuneNext]_vars
SpecAuto == InitAll /\ [][AutoNext]_vars

=============================================================================
